---- MODULE Spec2Model ----
(***************************************************************************)
(* Model of the lyrics-overlay core: the dual-key LRU cache with TTL       *)
(* (internal/cache/cache.go) and the lyrics resolution service             *)
(* (internal/lyrics/provider.go), and the playback sync engine of the      *)
(* overlay (internal/overlay/service.go, unnamed/part_005).                *)
(*                                                                         *)
(* Go strings are modelled as sequences of one-character strings, so that  *)
(* the empty string is <<>> and case folding / normalisation can be        *)
(* computed.  Time is counted in whole hours.                              *)
(***************************************************************************)
EXTENDS Integers, Sequences, FiniteSets, TLC

VARIABLES
    cache,      \* the cache.Service struct
    providers,  \* lyrics.Service.providers, in registration order
    now,        \* wall-clock time, in hours
    hung,       \* a caller is stuck in enforceMaxSize and never returns
    mu,         \* cache.Service.mu, the sync.RWMutex: who holds it
    callers,    \* concurrent callers of the cache: call and position in it
    fatal,      \* the Go runtime has ended the process (fatal error)
    setAt,      \* observer: time of the last Set of every slot now cached
    recency,    \* observer: the cached slots, most recently set or hit first
    last,       \* observer: the last call, its arguments and its results
    overlay,    \* the overlay.Service struct, with the sync offset of its config
    clock,      \* wall-clock time of the overlay, in milliseconds
    display,    \* observer: the last GetDisplayInfo call and its frame
    call,       \* a call of a pure function: its name, argument and result
    poller      \* spotify.Service: its fields, loops and fetches in flight

vars == <<cache, providers, now, hung, mu, callers, fatal, setAt, recency, last,
          overlay, clock, display, call, poller>>

\* ------------------------------------------------------------------ bounds
MaxCapacity == 2      \* capacities 1..MaxCapacity are explored
TickHours   == 13     \* the clock advances in steps of TickHours
MaxTicks    == 2      \* the clock advances at most MaxTicks times
MaxCallers  == 2      \* goroutines that call the cache concurrently
MaxAdvances == 2      \* the overlay's clock advances at most MaxAdvances times

\* ------------------------------------------------------- program constants
DefaultMaxSize == 100 \* cache.New: default capacity for maxSize <= 0
TTLHours       == 24  \* GetByTrackID / GetByKey: 24*time.Hour
syncLeadMs        == 250   \* internal/overlay/service.go: fixed lead
defaultSyncLeadMs == 350   \* unnamed/part_005: offset used for SyncOffset 0
DefaultSyncOffset == 350   \* config.getDefaultConfig: Overlay.SyncOffset
DefaultLineDuration == 3000 \* unnamed/part_005: "Default 3 seconds"

\* --------------------------------------------------------------- strings
EmptyStr == <<>>

Nil == [nil |-> TRUE]

\* ---------------------------------------------------------- container/list
\* An element of the LRU list is identified by the key space it was pushed
\* for and carries the immutable key fields of the cacheEntry it points to.
Elem(space, trackID, cacheKey) ==
    [space |-> space, trackID |-> trackID, cacheKey |-> cacheKey]

RECURSIVE SeqRemove(_, _)
SeqRemove(l, e) ==
    IF l = <<>> THEN <<>>
    ELSE IF Head(l) = e THEN Tail(l)
    ELSE <<Head(l)>> \o SeqRemove(Tail(l), e)

InList(l, e) == \E i \in 1..Len(l) : l[i] = e

ListRemove(l, e) == IF InList(l, e) THEN SeqRemove(l, e) ELSE l

ListPushFront(l, e) == <<e>> \o l

ListMoveToFront(l, e) == IF InList(l, e) THEN <<e>> \o SeqRemove(l, e) ELSE l

ListBack(l) == l[Len(l)]

\* ------------------------------------------------------------------ maps
MapDelete(m, k) == [x \in (DOMAIN m) \ {k} |-> m[x]]

MapPut(m, k, v) == [x \in (DOMAIN m) \cup {k} |-> IF x = k THEN v ELSE m[x]]

EmptyMap == [x \in {} |-> Nil]

\* ------------------------------------------------------------- cache.New
New(maxSize) ==
    [ maxSize     |-> IF maxSize <= 0 THEN DefaultMaxSize ELSE maxSize,
      trackCache  |-> EmptyMap,
      keyCache    |-> EmptyMap,
      lruList     |-> <<>>,
      trackToElem |-> EmptyMap,
      keyToElem   |-> EmptyMap ]

\* ------------------------------------------------------- removeEntryUnsafe
\* Mutant: the entry leaves the maps but its element stays in the LRU list.
removeEntryUnsafe_KeepsElem(c, entry) ==
    LET c1 == IF entry.trackID # EmptyStr
              THEN [c EXCEPT !.trackCache = MapDelete(@, entry.trackID)]
              ELSE c
    IN  IF entry.cacheKey # EmptyStr
        THEN [c1 EXCEPT !.keyCache = MapDelete(@, entry.cacheKey)]
        ELSE c1

removeEntryUnsafe(c, entry) ==
    LET c1 == IF entry.trackID # EmptyStr
              THEN LET d == [c EXCEPT !.trackCache = MapDelete(@, entry.trackID)]
                   IN  IF entry.trackID \in DOMAIN d.trackToElem
                       THEN [d EXCEPT
                               !.lruList = ListRemove(@, d.trackToElem[entry.trackID]),
                               !.trackToElem = MapDelete(@, entry.trackID)]
                       ELSE d
              ELSE c
    IN  IF entry.cacheKey # EmptyStr
        THEN LET d == [c1 EXCEPT !.keyCache = MapDelete(@, entry.cacheKey)]
             IN  IF entry.cacheKey \in DOMAIN d.keyToElem
                 THEN [d EXCEPT
                         !.lruList = ListRemove(@, d.keyToElem[entry.cacheKey]),
                         !.keyToElem = MapDelete(@, entry.cacheKey)]
                 ELSE d
        ELSE c1

\* ---------------------------------------------------------- enforceMaxSize
\* The loop "for s.lruList.Len() > s.maxSize { remove Back }".  The result
\* is the cache the loop leaves and whether the loop exits: an iteration
\* that leaves the cache unchanged repeats forever (spins).
RECURSIVE enforceMaxSize(_)
enforceMaxSize(c) ==
    IF Len(c.lruList) > c.maxSize
    THEN LET entry == ListBack(c.lruList)
             c2    == removeEntryUnsafe(c, entry)
         IN  IF c2 = c THEN [c |-> c, spins |-> TRUE] ELSE enforceMaxSize(c2)
    ELSE [c |-> c, spins |-> FALSE]

\* ------------------------------------------------------------ GetByTrackID
\* Mutant: the TTL is taken in a unit far below the hour.
Expired_AnyAge(entry, t) == t - entry.timestamp > 0

Expired(entry, t) == t - entry.timestamp > TTLHours

\* Mutant: a hit also refreshes the entry's timestamp.
GetByTrackID_Refresh(c, trackID, t) ==
    IF trackID \notin DOMAIN c.trackCache
    THEN [c |-> c, ret |-> Nil]
    ELSE LET entry == c.trackCache[trackID]
         IN  IF Expired(entry, t)
             THEN [c |-> removeEntryUnsafe(c, entry), ret |-> Nil]
             ELSE [c |-> [c EXCEPT !.trackCache[trackID].timestamp = t,
                                   !.lruList = ListMoveToFront(@, c.trackToElem[trackID])],
                   ret |-> entry.lyrics]

GetByTrackID(c, trackID, t) ==
    IF trackID \notin DOMAIN c.trackCache
    THEN [c |-> c, ret |-> Nil]
    ELSE LET entry == c.trackCache[trackID]
         IN  IF Expired(entry, t)
             THEN [c |-> removeEntryUnsafe(c, entry), ret |-> Nil]
             ELSE [c |-> IF trackID \in DOMAIN c.trackToElem
                         THEN [c EXCEPT !.lruList =
                                 ListMoveToFront(@, c.trackToElem[trackID])]
                         ELSE c,
                   ret |-> entry.lyrics]

\* ---------------------------------------------------------------- GetByKey
\* Mutant: a hit does not move the element to the front of the LRU list.
GetByKey_NoPromote(c, cacheKey, t) ==
    IF cacheKey \notin DOMAIN c.keyCache
    THEN [c |-> c, ret |-> Nil]
    ELSE LET entry == c.keyCache[cacheKey]
         IN  IF Expired(entry, t)
             THEN [c |-> removeEntryUnsafe(c, entry), ret |-> Nil]
             ELSE [c |-> c, ret |-> entry.lyrics]

GetByKey(c, cacheKey, t) ==
    IF cacheKey \notin DOMAIN c.keyCache
    THEN [c |-> c, ret |-> Nil]
    ELSE LET entry == c.keyCache[cacheKey]
         IN  IF Expired(entry, t)
             THEN [c |-> removeEntryUnsafe(c, entry), ret |-> Nil]
             ELSE [c |-> IF cacheKey \in DOMAIN c.keyToElem
                         THEN [c EXCEPT !.lruList =
                                 ListMoveToFront(@, c.keyToElem[cacheKey])]
                         ELSE c,
                   ret |-> entry.lyrics]

\* ------------------------------------------------------------ SetByTrackID
\* The Set operations return the cache they leave and whether the call is
\* stuck in enforceMaxSize.

\* Mutant: a new entry is inserted without enforcing the size limit.
SetByTrackID_NoEnforce(c, trackID, lyrics, t) ==
    IF trackID \in DOMAIN c.trackCache
    THEN [c |-> [c EXCEPT !.trackCache[trackID].lyrics = lyrics,
                          !.trackCache[trackID].timestamp = t,
                          !.lruList = ListMoveToFront(@, c.trackToElem[trackID])],
          spins |-> FALSE]
    ELSE [c |-> [c EXCEPT
                   !.trackCache  = MapPut(@, trackID,
                                     [lyrics |-> lyrics, trackID |-> trackID,
                                      cacheKey |-> EmptyStr, timestamp |-> t]),
                   !.lruList     = ListPushFront(@, Elem("track", trackID, EmptyStr)),
                   !.trackToElem = MapPut(@, trackID, Elem("track", trackID, EmptyStr))],
          spins |-> FALSE]

SetByTrackID(c, trackID, lyrics, t) ==
    IF trackID \in DOMAIN c.trackCache
    THEN LET c1 == [c EXCEPT !.trackCache[trackID].lyrics = lyrics,
                             !.trackCache[trackID].timestamp = t]
         IN  [c |-> IF trackID \in DOMAIN c1.trackToElem
                    THEN [c1 EXCEPT !.lruList =
                            ListMoveToFront(@, c1.trackToElem[trackID])]
                    ELSE c1,
              spins |-> FALSE]
    ELSE LET entry == [lyrics |-> lyrics, trackID |-> trackID,
                       cacheKey |-> EmptyStr, timestamp |-> t]
             elem  == Elem("track", trackID, EmptyStr)
         IN  enforceMaxSize(
               [c EXCEPT !.trackCache  = MapPut(@, trackID, entry),
                         !.lruList     = ListPushFront(@, elem),
                         !.trackToElem = MapPut(@, trackID, elem)])

\* ---------------------------------------------------------------- SetByKey
\* Mutant: an existing key is inserted again instead of updated in place.
SetByKey_Reinserts(c, cacheKey, lyrics, t) ==
    LET entry == [lyrics |-> lyrics, trackID |-> EmptyStr,
                  cacheKey |-> cacheKey, timestamp |-> t]
        elem  == Elem("key", EmptyStr, cacheKey)
    IN  enforceMaxSize(
          [c EXCEPT !.keyCache  = MapPut(@, cacheKey, entry),
                    !.lruList   = ListPushFront(@, elem),
                    !.keyToElem = MapPut(@, cacheKey, elem)])

SetByKey(c, cacheKey, lyrics, t) ==
    IF cacheKey \in DOMAIN c.keyCache
    THEN LET c1 == [c EXCEPT !.keyCache[cacheKey].lyrics = lyrics,
                             !.keyCache[cacheKey].timestamp = t]
         IN  [c |-> IF cacheKey \in DOMAIN c1.keyToElem
                    THEN [c1 EXCEPT !.lruList =
                            ListMoveToFront(@, c1.keyToElem[cacheKey])]
                    ELSE c1,
              spins |-> FALSE]
    ELSE LET entry == [lyrics |-> lyrics, trackID |-> EmptyStr,
                       cacheKey |-> cacheKey, timestamp |-> t]
             elem  == Elem("key", EmptyStr, cacheKey)
         IN  enforceMaxSize(
               [c EXCEPT !.keyCache  = MapPut(@, cacheKey, entry),
                         !.lruList   = ListPushFront(@, elem),
                         !.keyToElem = MapPut(@, cacheKey, elem)])

\* ------------------------------------------------------------------- Clear
\* Mutant: Clear forgets the key map.
Clear_KeepsKeyCache(c) ==
    [c EXCEPT !.trackCache = EmptyMap,
              !.lruList = <<>>, !.trackToElem = EmptyMap,
              !.keyToElem = EmptyMap]

Clear(c) ==
    [c EXCEPT !.trackCache = EmptyMap, !.keyCache = EmptyMap,
              !.lruList = <<>>, !.trackToElem = EmptyMap,
              !.keyToElem = EmptyMap]

\* ------------------------------------------------------------ Size, Stats
Size(c) == Len(c.lruList)

Stats(c) ==
    [ Size         |-> Len(c.lruList),
      MaxSize      |-> c.maxSize,
      TrackEntries |-> Cardinality(DOMAIN c.trackCache),
      KeyEntries   |-> Cardinality(DOMAIN c.keyCache) ]

\* ================================================================ strings
\* upper-case letter -> lower-case letter
LowerOf ==
    [
      A |-> "a", B |-> "b", C |-> "c", D |-> "d", E |-> "e", F |-> "f",
      G |-> "g", H |-> "h", I |-> "i", J |-> "j", K |-> "k", L |-> "l",
      M |-> "m", N |-> "n", O |-> "o", P |-> "p", Q |-> "q", R |-> "r",
      S |-> "s", T |-> "t", U |-> "u", V |-> "v", W |-> "w", X |-> "x",
      Y |-> "y", Z |-> "z" ]

LowerChars == { LowerOf[ch] : ch \in DOMAIN LowerOf }

DigitChars == {"0","1","2","3","4","5","6","7","8","9"}

\* strings.ToLower, one character
ToLowerChar(ch) == IF ch \in DOMAIN LowerOf THEN LowerOf[ch] ELSE ch

\* strings.ToLower
ToLower(s) == [i \in 1..Len(s) |-> ToLowerChar(s[i])]

\* strings.EqualFold
EqualFold(a, b) == ToLower(a) = ToLower(b)

\* regexp classes: \s, \w, \d and "." (any character but newline)
IsSpace(ch) == ch \in {" ", "\t", "\n", "\f", "\r"}

IsWord(ch) ==
    \/ ch \in DOMAIN LowerOf
    \/ ch \in LowerChars
    \/ ch \in DigitChars
    \/ ch = "_"

InClass(cls, ch) ==
    CASE cls = "s"   -> IsSpace(ch)
      [] cls = "dot" -> ch # "\n"
      [] cls = "d"   -> ch \in DigitChars

\* --------------------------------------------------------- regexp matching
\* A pattern is a sequence of tokens: a literal character, or a starred /
\* plussed character class, greedy or lazy.  MatchAt follows the leftmost-
\* first (preference order) semantics of Go's regexp package: it returns the
\* position after the preferred match that starts at i, or 0 when no match
\* starts at i.
LitTok(ch) == [t |-> "lit", c |-> ch, cls |-> "", min |-> 1, lazy |-> FALSE]

Lit(str) == [i \in 1..Len(str) |-> LitTok(str[i])]

Star(cls) == <<[t |-> "rep", c |-> "", cls |-> cls, min |-> 0, lazy |-> FALSE]>>

LazyStar(cls) == <<[t |-> "rep", c |-> "", cls |-> cls, min |-> 0, lazy |-> TRUE]>>

Plus(cls) == <<[t |-> "rep", c |-> "", cls |-> cls, min |-> 1, lazy |-> FALSE]>>

\* number of consecutive characters of class cls in s from position i on
RECURSIVE Run(_, _, _)
Run(s, i, cls) ==
    IF i <= Len(s) /\ InClass(cls, s[i]) THEN 1 + Run(s, i + 1, cls) ELSE 0

RECURSIVE MatchAt(_, _, _, _), TryRep(_, _, _, _, _, _)
MatchAt(p, k, s, i) ==
    IF k > Len(p) THEN i
    ELSE IF p[k].t = "lit"
         THEN IF i <= Len(s) /\ s[i] = p[k].c
              THEN MatchAt(p, k + 1, s, i + 1)
              ELSE 0
         ELSE LET n == Run(s, i, p[k].cls)
              IN  IF n < p[k].min THEN 0
                  ELSE IF p[k].lazy
                       THEN TryRep(p, k, s, i, p[k].min, n)
                       ELSE TryRep(p, k, s, i, n, n)

\* try repetition count j, then the next one in preference order
TryRep(p, k, s, i, j, n) ==
    LET r == MatchAt(p, k + 1, s, i + j)
    IN  IF r # 0 THEN r
        ELSE IF p[k].lazy
             THEN IF j < n THEN TryRep(p, k, s, i, j + 1, n) ELSE 0
             ELSE IF j > p[k].min THEN TryRep(p, k, s, i, j - 1, n) ELSE 0

\* regexp.ReplaceAllString(text, "") for a pattern that matches no empty string
RECURSIVE ReplaceAllFrom(_, _, _)
ReplaceAllFrom(p, s, i) ==
    IF i > Len(s) THEN <<>>
    ELSE LET e == MatchAt(p, 1, s, i)
         IN  IF e > i THEN ReplaceAllFrom(p, s, e)
             ELSE <<s[i]>> \o ReplaceAllFrom(p, s, i + 1)

ReplaceAll(p, s) == ReplaceAllFrom(p, s, 1)

\* --------------------------------------------------------- normalizeString
Str_feat      == <<"(","f","e","a","t",".">>
Str_ft        == <<"(","f","t",".">>
Str_featuring == <<"(","f","e","a","t","u","r","i","n","g">>
Str_remix     == <<"r","e","m","i","x">>
Str_version   == <<"v","e","r","s","i","o","n">>
Str_edit      == <<"e","d","i","t">>
Str_remaster  == <<"r","e","m","a","s","t","e","r">>
Str_radio     == <<"r","a","d","i","o">>

patterns ==
    << Star("s") \o Lit(Str_feat) \o LazyStar("dot") \o Lit(<<")">>),
       Star("s") \o Lit(Str_ft) \o LazyStar("dot") \o Lit(<<")">>),
       Star("s") \o Lit(Str_featuring) \o LazyStar("dot") \o Lit(<<")">>),
       Star("s") \o Lit(<<"[">>) \o LazyStar("dot") \o Lit(<<"]">>),
       Star("s") \o Lit(<<"(">>) \o LazyStar("dot") \o Lit(Str_remix)
                 \o LazyStar("dot") \o Lit(<<")">>),
       Star("s") \o Lit(<<"(">>) \o LazyStar("dot") \o Lit(Str_version)
                 \o LazyStar("dot") \o Lit(<<")">>),
       Star("s") \o Lit(<<"(">>) \o LazyStar("dot") \o Lit(Str_edit)
                 \o LazyStar("dot") \o Lit(<<")">>),
       Star("s") \o Lit(<<"-">>) \o Star("s") \o Lit(Str_remaster) \o Star("dot"),
       Star("s") \o Lit(<<"-">>) \o Star("s") \o Lit(Str_remix) \o Star("dot"),
       Star("s") \o Lit(<<"-">>) \o Star("s") \o Lit(Str_radio) \o Plus("s")
                 \o Lit(Str_edit) \o Star("dot"),
       Star("s") \o Lit(<<"-">>) \o Star("s") \o Star("dot") \o Plus("s")
                 \o Lit(Str_edit) \o Star("dot"),
       Star("s") \o Lit(<<"-">>) \o Star("s") \o Star("dot") \o Plus("s")
                 \o Lit(Str_version) \o Star("dot") >>

RECURSIVE ApplyPatterns(_, _)
ApplyPatterns(text, k) ==
    IF k > Len(patterns) THEN text
    ELSE ApplyPatterns(ReplaceAll(patterns[k], text), k + 1)

\* regexp `[^\w\s]` replaced by ""
StripSpecial(s) == SelectSeq(s, LAMBDA ch : IsWord(ch) \/ IsSpace(ch))

\* regexp `\s+` replaced by " "
RECURSIVE CollapseSpace(_)
CollapseSpace(s) ==
    IF s = <<>> THEN <<>>
    ELSE IF IsSpace(Head(s))
         THEN <<" ">> \o CollapseSpace(SubSeq(s, 1 + Run(s, 1, "s"), Len(s)))
         ELSE <<Head(s)>> \o CollapseSpace(Tail(s))

\* strings.TrimSpace
RECURSIVE TrimSpace(_)
TrimSpace(s) ==
    IF s = <<>> THEN s
    ELSE IF IsSpace(Head(s)) THEN TrimSpace(Tail(s))
    ELSE IF IsSpace(s[Len(s)]) THEN TrimSpace(SubSeq(s, 1, Len(s) - 1))
    ELSE s

normalizeStringSteps_CollapseFirst(text) ==
    TrimSpace(StripSpecial(CollapseSpace(ApplyPatterns(ToLower(text), 1))))

normalizeStringSteps(text) ==
    TrimSpace(CollapseSpace(StripSpecial(ApplyPatterns(ToLower(text), 1))))

\* The strings the model's callers pass; their normal forms are computed once.
Str_A      == <<"A">>
Str_S      == <<"S">>
Str_S_ft_X == <<"S", " ", "(", "f", "t", ".", " ", "X", ")">>
Str_B      == <<"B">>

KnownStrings == { Str_A, Str_S, Str_S_ft_X, Str_B }

NormalForm == [text \in KnownStrings |-> normalizeStringSteps(text)]

normalizeString(text) ==
    IF text \in KnownStrings THEN NormalForm[text]
    ELSE normalizeStringSteps(text)

\* fmt.Sprintf("%s|%s", normalizedArtist, normalizedTitle)
normalizeForCache(artist, title) ==
    normalizeString(artist) \o <<"|">> \o normalizeString(title)

\* ========================================================== lyrics service
Line(text, ts) == [Text |-> text, Timestamp |-> ts]

Lyrics(trackID, source, lines, synced) ==
    [TrackID |-> trackID, Source |-> source, Lines |-> lines,
     IsSynced |-> synced]

\* ============================================================== LRC parser
\* strings.Split(lrc, "\n")
RECURSIVE Split(_)
Split(lrc) ==
    IF \A i \in 1..Len(lrc) : lrc[i] # "\n" THEN <<lrc>>
    ELSE LET k == CHOOSE i \in 1..Len(lrc) :
                      lrc[i] = "\n" /\ \A j \in 1..(i - 1) : lrc[j] # "\n"
         IN  <<SubSeq(lrc, 1, k - 1)>> \o Split(SubSeq(lrc, k + 1, Len(lrc)))

HasPrefix(s, prefix) ==
    Len(s) >= Len(prefix) /\ SubSeq(s, 1, Len(prefix)) = prefix

MetadataPrefixes ==
    { <<"[","t","i",":">>, <<"[","a","r",":">>, <<"[","a","l",":">>, <<"[","b","y",":">>, <<"[","o","f","f","s","e","t",":">> }

IsMetadata(raw) == \E prefix \in MetadataPrefixes : HasPrefix(raw, prefix)

\* the match of \[(\d{1,2}):(\d{1,2})(?:\.(\d{1,3}))?\] that starts at i, with
\* its submatches; end is the position after the match, 0 when none starts at i
NoTag == [end |-> 0, min |-> <<>>, sec |-> <<>>, frac |-> <<>>]

TagAt(raw, i) ==
    LET d1  == Run(raw, i + 1, "d")
        c   == i + 1 + d1
        d2  == Run(raw, c + 1, "d")
        e   == c + 1 + d2
        d3  == Run(raw, e + 1, "d")
        min == SubSeq(raw, i + 1, i + d1)
        sec == SubSeq(raw, c + 1, c + d2)
    IN  IF ~ ( /\ raw[i] = "["
               /\ d1 \in 1..2
               /\ c <= Len(raw) /\ raw[c] = ":"
               /\ d2 \in 1..2
               /\ e <= Len(raw) )
        THEN NoTag
        ELSE IF raw[e] = "]"
        THEN [end |-> e + 1, min |-> min, sec |-> sec, frac |-> <<>>]
        ELSE IF /\ raw[e] = "."
                /\ d3 \in 1..3
                /\ e + 1 + d3 <= Len(raw) /\ raw[e + 1 + d3] = "]"
        THEN [end |-> e + 2 + d3, min |-> min, sec |-> sec,
              frac |-> SubSeq(raw, e + 1, e + d3)]
        ELSE NoTag

\* re.FindAllStringSubmatchIndex(raw, -1): leftmost matches, not overlapping
RECURSIVE FindAll(_, _)
FindAll(raw, i) ==
    IF i > Len(raw) THEN <<>>
    ELSE LET m == TagAt(raw, i)
         IN  IF m.end # 0 THEN <<m>> \o FindAll(raw, m.end)
             ELSE FindAll(raw, i + 1)

DigitValue ==
    [ch \in DigitChars |->
        CASE ch = "0" -> 0 [] ch = "1" -> 1 [] ch = "2" -> 2 [] ch = "3" -> 3
          [] ch = "4" -> 4 [] ch = "5" -> 5 [] ch = "6" -> 6 [] ch = "7" -> 7
          [] ch = "8" -> 8 [] ch = "9" -> 9]

\* atoiSafe: the decimal value of the digits of s, other characters skipped
RECURSIVE atoiSafe(_)
atoiSafe(s) ==
    IF s = <<>> THEN 0
    ELSE LET ch == s[Len(s)]
             n  == atoiSafe(SubSeq(s, 1, Len(s) - 1))
         IN  IF ch \in DigitChars THEN n * 10 + DigitValue[ch] ELSE n

\* the fraction of a tag padded to milliseconds: "5" -> "500", "34" -> "340"
PadFraction_NoPad(p) == p

PadFraction(p) ==
    IF Len(p) = 2 THEN p \o <<"0">>
    ELSE IF Len(p) = 1 THEN p \o <<"0", "0">>
    ELSE p

TagTimestamp(m) ==
    LET ms == IF m.frac # <<>> THEN atoiSafe(PadFraction(m.frac)) ELSE 0
    IN  atoiSafe(m.min) * 60 * 1000 + atoiSafe(m.sec) * 1000 + ms

\* the lines one line of the input appends: the body of the loop over
\* strings.Split(lrc, "\n")
ParseLine(raw0) ==
    LET raw     == TrimSpace(raw0)
        matches == FindAll(raw, 1)
        text    == IF matches = <<>> THEN <<>>
                   ELSE TrimSpace(SubSeq(raw, matches[Len(matches)].end, Len(raw)))
    IN  IF raw = <<>> \/ IsMetadata(raw) \/ matches = <<>> \/ text = <<>>
        THEN <<>>
        ELSE [k \in 1..Len(matches) |-> Line(text, TagTimestamp(matches[k]))]

RECURSIVE ParseLines(_)
ParseLines(raws) ==
    IF raws = <<>> THEN <<>>
    ELSE ParseLine(Head(raws)) \o ParseLines(Tail(raws))

\* insertionSort_func of package sort: stable
RECURSIVE InsertSorted(_, _), InsertionSort(_)
InsertSorted(sorted, x) ==
    IF sorted = <<>> THEN <<x>>
    ELSE IF x.Timestamp < sorted[Len(sorted)].Timestamp
         THEN InsertSorted(SubSeq(sorted, 1, Len(sorted) - 1), x)
                  \o <<sorted[Len(sorted)]>>
         ELSE sorted \o <<x>>

InsertionSort(lines) ==
    IF lines = <<>> THEN <<>>
    ELSE InsertSorted(InsertionSort(SubSeq(lines, 1, Len(lines) - 1)),
                      lines[Len(lines)])

\* every order of the elements of lines
Orders(lines) ==
    { [k \in 1..Len(lines) |-> lines[f[k]]] :
        f \in { g \in [1..Len(lines) -> 1..Len(lines)] :
                  \A a, b \in 1..Len(lines) : a # b => g[a] # g[b] } }

\* every order of lines that is ascending by timestamp
RECURSIVE AscendingOrders(_)
AscendingOrders(lines) ==
    IF lines = <<>> THEN { <<>> }
    ELSE LET least == CHOOSE t \in { lines[k].Timestamp : k \in 1..Len(lines) } :
                          \A k \in 1..Len(lines) : t <= lines[k].Timestamp
             first == SelectSeq(lines, LAMBDA l : l.Timestamp = least)
             rest  == SelectSeq(lines, LAMBDA l : l.Timestamp # least)
         IN  { f \o r : f \in Orders(first), r \in AscendingOrders(rest) }

\* sort.Slice(lines, less by Timestamp): the sort is not stable.  Slices of up
\* to 12 elements are insertion-sorted, which keeps equal elements in order;
\* longer slices are partitioned by swaps, which may not.
SortSlice(lines) ==
    IF Len(lines) <= 12 THEN { InsertionSort(lines) }
    ELSE AscendingOrders(lines)

\* the results parseLRCToLines(lrc) can return
parseLRCToLines(lrc) == SortSlice(ParseLines(Split(lrc)))

\* ------------------------------------------------------- textToLyricsLines
\* strings.Contains
Contains(s, substr) ==
    \E i \in 1..(Len(s) - Len(substr) + 1) : SubSeq(s, i, i + Len(substr) - 1) = substr

\* strings.Fields
RECURSIVE Fields(_)
Fields(s) ==
    IF s = <<>> THEN <<>>
    ELSE IF IsSpace(Head(s)) THEN Fields(Tail(s))
    ELSE LET n == CHOOSE k \in 1..Len(s) :
                      /\ \A j \in 1..k : ~IsSpace(s[j])
                      /\ (k = Len(s) \/ IsSpace(s[k + 1]))
         IN  <<SubSeq(s, 1, n)>> \o Fields(SubSeq(s, n + 1, Len(s)))


\* the entries of langWords written in ASCII; the others are outside the
\* alphabet of the strings modelled here
langWords ==
    { <<"c","e","s","k","y">>,
      <<"d","e","u","t","s","c","h">>,
      <<"f","r","a","n","c","a","i","s">>,
      <<"e","s","p","a","n","o","l">>,
      <<"p","o","r","t","u","g","u","e","s">>,
      <<"i","t","a","l","i","a","n","o">>,
      <<"p","o","l","s","k","i">>,
      <<"n","e","d","e","r","l","a","n","d","s">>,
      <<"s","v","e","n","s","k","a">>,
      <<"s","u","o","m","i">>,
      <<"d","a","n","s","k">>,
      <<"n","o","r","s","k">>,
      <<"b","a","h","a","s","a">>,
      <<"b","a","h","a","s","a"," ","i","n","d","o","n","e","s","i","a">>,
      <<"t","i","e","n","g"," ","v","i","e","t">>,
      <<"t","u","r","k","c","e">>,
      <<"h","e","b","r","e","w">> }

isSkippable(s) ==
    LET t      == TrimSpace(ToLower(s))
        tokens == Fields(CollapseSpace(t))
    IN  IF t = <<>> THEN FALSE
        ELSE \/ Contains(t, <<"y","o","u"," ","m","i","g","h","t"," ","a","l","s","o"," ","l","i","k","e">>)
             \/ Contains(t, <<"g","e","n","i","u","s"," ","a","n","n","o","t","a","t","i","o","n">>)
             \/ HasPrefix(t, <<"s","e","e"," ">>)
             \/ MatchAt(Plus("d") \o Star("s") \o Lit(<<"e","m","b","e","d">>), 1, t, 1) = Len(t) + 1
             \/ Contains(t, <<"c","o","n","t","r","i","b","u","t","o","r","s">>)
             \/ Contains(t, <<"t","r","a","n","s","l","a","t","i","o","n">>) \/ Contains(t, <<"t","r","a","n","s","l","a","t","i","o","n","s">>)
             \/ /\ Len(tokens) > 0 /\ Len(tokens) <= 3
                /\ \A i \in 1..Len(tokens) : tokens[i] \in langWords

\* the loop over rawLines; lines is the slice built so far
RECURSIVE FilterLines(_, _, _, _)
FilterLines(rawLines, i, lines, lastWasEmpty) ==
    IF i > Len(rawLines) THEN lines
    ELSE LET t == TrimSpace(rawLines[i])
         IN  IF isSkippable(t)
             THEN FilterLines(rawLines, i + 1, lines, lastWasEmpty)
             ELSE IF t = <<>>
                  THEN IF lastWasEmpty
                       THEN FilterLines(rawLines, i + 1, lines, lastWasEmpty)
                       ELSE FilterLines(rawLines, i + 1, Append(lines, Line(<<>>, 0)), TRUE)
                  ELSE FilterLines(rawLines, i + 1, Append(lines, Line(t, 0)), FALSE)

\* for len(lines) > 0 && lines[0].Text == "" { lines = lines[1:] }
RECURSIVE TrimLeadingEmpty(_)
\* Mutant: leading empty lines stay.
TrimLeadingEmpty_Keep(lines) == lines

TrimLeadingEmpty(lines) ==
    IF lines # <<>> /\ lines[1].Text = <<>> THEN TrimLeadingEmpty(Tail(lines))
    ELSE lines

\* for len(lines) > 0 && lines[len(lines)-1].Text == "" { lines = lines[:len(lines)-1] }
RECURSIVE TrimTrailingEmpty(_)
TrimTrailingEmpty(lines) ==
    IF lines # <<>> /\ lines[Len(lines)].Text = <<>>
    THEN TrimTrailingEmpty(SubSeq(lines, 1, Len(lines) - 1))
    ELSE lines

textToLyricsLines(text) ==
    TrimTrailingEmpty(TrimLeadingEmpty(FilterLines(Split(text), 1, <<>>, FALSE)))

Src_Info   == <<"I","n","f","o">>
Src_Demo   == <<"D","e","m","o">>
Src_LRCLIB == <<"L","R","C","L","I","B">>
Src_Genius == <<"G","e","n","i","u","s">>

\* Mutant: only the provider's name "Demo" is tested, not the source "Info"
\* its results carry.
IsInfoOrDemo_DemoOnly(lyrics) == EqualFold(lyrics.Source, Src_Demo)

\* strings.EqualFold(lyrics.Source, "Info") || strings.EqualFold(lyrics.Source, "Demo")
IsInfoOrDemo(lyrics) ==
    EqualFold(lyrics.Source, Src_Info) \/ EqualFold(lyrics.Source, Src_Demo)

\* ---------------------------------------------------------- LRCLibProvider
lrcLibTrack(id, trackName, artistName, plainLyrics, syncedLyrics) ==
    [ID |-> id, TrackName |-> trackName, ArtistName |-> artistName,
     PlainLyrics |-> plainLyrics, SyncedLyrics |-> syncedLyrics]

\* trackToLyricsData once both texts are parsed: synced lines win, then plain
\* lines, else nil
DataOf(synced, plain) ==
    IF synced # {} THEN synced
    ELSE IF plain # <<>> THEN { Lyrics(EmptyStr, Src_LRCLIB, plain, FALSE) }
    ELSE { Nil }

\* trackToLyricsData: the results it can give (one for each order the sort
\* of parseLRCToLines can leave), Nil for nil
trackToLyricsData(track) ==
    IF track = Nil THEN { Nil }
    ELSE DataOf(IF track.SyncedLyrics = <<>> THEN {}
                ELSE { Lyrics(EmptyStr, Src_LRCLIB, lines, TRUE) :
                         lines \in parseLRCToLines(track.SyncedLyrics) \ { <<>> } },
                IF track.PlainLyrics = <<>> THEN <<>>
                ELSE textToLyricsLines(track.PlainLyrics))

\* the score pickBestLRCLibMatch gives a search result
Score(r, nArtist, nTitle) ==
    (IF normalizeString(r.ArtistName) = nArtist THEN 3 ELSE 0)
      + (IF normalizeString(r.TrackName) = nTitle THEN 3 ELSE 0)
      + (IF r.SyncedLyrics # <<>> THEN 2 ELSE 0)
      + (IF r.PlainLyrics # <<>> THEN 1 ELSE 0)

\* the loop of pickBestLRCLibMatch from index i on (indices count from 0)
RECURSIVE BestIdx(_, _, _, _, _, _)
\* Mutant: a later result with the same score replaces the best one.
BestIdx_LastWins(results, nArtist, nTitle, i, bestIdx, bestScore) ==
    IF i >= Len(results) THEN bestIdx
    ELSE LET score == Score(results[i + 1], nArtist, nTitle)
         IN  IF score >= bestScore
             THEN BestIdx(results, nArtist, nTitle, i + 1, i, score)
             ELSE BestIdx(results, nArtist, nTitle, i + 1, bestIdx, bestScore)

BestIdx(results, nArtist, nTitle, i, bestIdx, bestScore) ==
    IF i >= Len(results) THEN bestIdx
    ELSE LET score == Score(results[i + 1], nArtist, nTitle)
         IN  IF score > bestScore
             THEN BestIdx(results, nArtist, nTitle, i + 1, i, score)
             ELSE BestIdx(results, nArtist, nTitle, i + 1, bestIdx, bestScore)

pickBestLRCLibMatch(results, artist, title) ==
    LET bestIdx == BestIdx(results, normalizeString(artist), normalizeString(title), 0, -1, -1)
    IN  IF bestIdx >= 0 THEN results[bestIdx + 1] ELSE Nil

\* What LRCLIB answers: srv.get to /get?track_name=..., srv.search to
\* /search?track_name=..., srv.query to /search?q=..., and srv.byID(id) to
\* /get/{id} and /get?id=...; a reply is [err, body], err for every failure of
\* the request.
Reply(err, body) == [err |-> err, body |-> body]

\* tryGet: nil for a failure and for a record without lyrics
tryGet(srv, artist, title) ==
    IF srv.get.err THEN Nil
    ELSE IF srv.get.body.PlainLyrics = <<>> /\ srv.get.body.SyncedLyrics = <<>> THEN Nil
    ELSE srv.get.body

\* search, then searchByQuery when search found nothing: [err, results]
SearchResults(srv, artist, title) ==
    IF srv.search.err THEN Reply(TRUE, <<>>)
    ELSE IF srv.search.body # <<>> THEN srv.search
    ELSE IF TrimSpace(title \o <<" ">> \o artist) = <<>> THEN Reply(TRUE, <<>>)
    ELSE IF srv.query.err \/ srv.query.body = <<>> THEN Reply(TRUE, <<>>)
    ELSE srv.query

\* best := pickBestLRCLibMatch(...); if best == nil { best = &results[0] }
BestOf(results, artist, title) ==
    LET best == pickBestLRCLibMatch(results, artist, title)
    IN  IF best = Nil THEN results[1] ELSE best

\* getByID: srv.byID[id] is what the two endpoints together come to
getByID(srv, id) == IF srv.byID[id].err THEN Reply(TRUE, Nil) ELSE srv.byID[id]

Found(data) == [err |-> FALSE, lyrics |-> data]

NotFound == [err |-> TRUE, lyrics |-> Nil]

\* if data := l.trackToLyricsData(...); data != nil { return data, nil }
FirstFound(data, otherwise) ==
    IF Nil \notin data THEN { Found(d) : d \in data } ELSE otherwise

\* SearchLyrics once best is picked: the record fetched by its ID, then the
\* search record itself
FromResults(srv, best, full) ==
    FirstFound(IF ~full.err /\ full.body # Nil THEN trackToLyricsData(full.body) ELSE { Nil },
               FirstFound(trackToLyricsData(best), { NotFound }))

\* SearchLyrics from the search on
FromSearch(srv, search, best) ==
    IF search.err THEN { NotFound }
    ELSE FromResults(srv, best, getByID(srv, best.ID))

\* LRCLibProvider.SearchLyrics: the results it can return
LRCLibSearchLyrics(srv, artist, title) ==
    FirstFound(trackToLyricsData(tryGet(srv, artist, title)),
               FromSearch(srv, SearchResults(srv, artist, title),
                          BestOf(SearchResults(srv, artist, title).body, artist, title)))

\* What a provider call can come back with.
Outcomes == {"err", "empty", "lines"}

\* DemoProvider.SearchLyrics: never fails.  (The note glyphs of the source
\* are written "*".)
DemoSearchLyrics(artist, title) ==
    Lyrics(EmptyStr, Src_Info,
           << Line(<<"*", " ">> \o title, 0),
              Line(<<"b", "y", " ">> \o artist, 2000),
              Line(EmptyStr, 4000),
              Line(<<"*", " ", "P", "l", "a", "y", "i", "n", "g", " ", "*">>, 6000) >>,
           FALSE)

\* provider.SearchLyrics(artist, title), as GetLyrics sees it: an error, or
\* a result that may be nil / without lines.  The network decides `outcome`.
SearchLyrics(provider, outcome, artist, title) ==
    IF provider = "Demo"
    THEN [err |-> FALSE, lyrics |-> DemoSearchLyrics(artist, title)]
    ELSE CASE outcome = "err"   -> [err |-> TRUE, lyrics |-> Nil]
           [] outcome = "empty" -> [err |-> FALSE, lyrics |-> Nil]
           [] outcome = "lines" ->
                [err |-> FALSE,
                 lyrics |-> IF provider = "LRCLIB"
                            THEN Lyrics(EmptyStr, Src_LRCLIB,
                                        <<Line(<<"l">>, 1000)>>, TRUE)
                            ELSE Lyrics(EmptyStr, Src_Genius,
                                        <<Line(<<"g">>, 0)>>, FALSE)]

\* lyrics.New: LRCLIB first, the demo provider as a fallback
NewProviders == <<"LRCLIB", "Demo">>

Slot(space, key) == <<space, key>>

\* no slot: the value of an observer field that names no entry
NoSlot == <<>>

\* The result of GetLyrics and of its provider loop:
\*   c       the cache afterwards
\*   ret/err the returned lyrics, or Nil and err = TRUE for "no lyrics found"
\*   called  the providers called, in order
\*   touches the cache slots hit or written, in order
\*   writes  the cache slots written
\*   spins   a cache write is stuck in enforceMaxSize: the call never returns
Result(c, ret, err, called, touches, writes, spins) ==
    [c |-> c, ret |-> ret, err |-> err, called |-> called,
     touches |-> touches, writes |-> writes, spins |-> spins]

\* The provider loop of GetLyrics from provider i on.
RECURSIVE WalkProviders(_, _, _, _, _, _, _, _, _)

\* Mutant: a provider error ends the walk instead of moving on.
WalkProviders_StopOnError(c, provs, outcomes, i, trackID, normalizedKey, artist, title, t) ==
    IF i > Len(provs)
    THEN Result(c, Nil, TRUE, <<>>, <<>>, {}, FALSE)
    ELSE LET r == SearchLyrics(provs[i], outcomes[i], artist, title)
             rest == WalkProviders(c, provs, outcomes, i + 1, trackID,
                                   normalizedKey, artist, title, t)
             skip == [rest EXCEPT !.called = <<i>> \o @]
         IN  IF r.err THEN Result(c, Nil, TRUE, <<i>>, <<>>, {}, FALSE)
             ELSE IF r.lyrics # Nil /\ Len(r.lyrics.Lines) > 0
             THEN LET lyrics == [r.lyrics EXCEPT !.TrackID = trackID]
                  IN  IF ~IsInfoOrDemo(lyrics)
                      THEN LET s1 == SetByTrackID(c, trackID, lyrics, t)
                               s2 == SetByKey(s1.c, normalizedKey, lyrics, t)
                           IN  IF s1.spins
                               THEN Result(s1.c, lyrics, FALSE, <<i>>,
                                           <<Slot("track", trackID)>>,
                                           {Slot("track", trackID)}, TRUE)
                               ELSE Result(s2.c, lyrics, FALSE, <<i>>,
                                           <<Slot("track", trackID),
                                             Slot("key", normalizedKey)>>,
                                           {Slot("track", trackID),
                                            Slot("key", normalizedKey)},
                                           s2.spins)
                      ELSE Result(c, lyrics, FALSE, <<i>>, <<>>, {}, FALSE)
             ELSE skip

WalkProviders(c, provs, outcomes, i, trackID, normalizedKey, artist, title, t) ==
    IF i > Len(provs)
    THEN Result(c, Nil, TRUE, <<>>, <<>>, {}, FALSE)
    ELSE LET r == SearchLyrics(provs[i], outcomes[i], artist, title)
             rest == WalkProviders(c, provs, outcomes, i + 1, trackID,
                                   normalizedKey, artist, title, t)
             skip == [rest EXCEPT !.called = <<i>> \o @]
         IN  IF r.err THEN skip
             ELSE IF r.lyrics # Nil /\ Len(r.lyrics.Lines) > 0
             THEN LET lyrics == [r.lyrics EXCEPT !.TrackID = trackID]
                  IN  IF ~IsInfoOrDemo(lyrics)
                      THEN LET s1 == SetByTrackID(c, trackID, lyrics, t)
                               s2 == SetByKey(s1.c, normalizedKey, lyrics, t)
                           IN  IF s1.spins
                               THEN Result(s1.c, lyrics, FALSE, <<i>>,
                                           <<Slot("track", trackID)>>,
                                           {Slot("track", trackID)}, TRUE)
                               ELSE Result(s2.c, lyrics, FALSE, <<i>>,
                                           <<Slot("track", trackID),
                                             Slot("key", normalizedKey)>>,
                                           {Slot("track", trackID),
                                            Slot("key", normalizedKey)},
                                           s2.spins)
                      ELSE Result(c, lyrics, FALSE, <<i>>, <<>>, {}, FALSE)
             ELSE skip

\* Mutant: a walk that found nothing is not reported as an error.
GetLyrics_NoError(c, provs, outcomes, trackID, artist, title, t) ==
    LET r1 == GetByTrackID(c, trackID, t)
        normalizedKey == normalizeForCache(artist, title)
        r2 == GetByKey(r1.c, normalizedKey, t)
        hit1 == IF r1.ret # Nil THEN <<Slot("track", trackID)>> ELSE <<>>
        hit2 == IF r2.ret # Nil THEN <<Slot("key", normalizedKey)>> ELSE <<>>
    IN  IF r1.ret # Nil /\ ~IsInfoOrDemo(r1.ret)
        THEN Result(r1.c, r1.ret, FALSE, <<>>, hit1, {}, FALSE)
        ELSE IF r2.ret # Nil /\ ~IsInfoOrDemo(r2.ret)
        THEN LET s1 == SetByTrackID(r2.c, trackID, r2.ret, t)
             IN  Result(s1.c, r2.ret, FALSE, <<>>,
                        hit1 \o hit2 \o <<Slot("track", trackID)>>,
                        {Slot("track", trackID)}, s1.spins)
        ELSE LET w == WalkProviders(r2.c, provs, outcomes, 1, trackID,
                                    normalizedKey, artist, title, t)
             IN  [w EXCEPT !.touches = hit1 \o hit2 \o @, !.err = FALSE]

\* Service.GetLyrics
GetLyrics(c, provs, outcomes, trackID, artist, title, t) ==
    LET r1 == GetByTrackID(c, trackID, t)
        normalizedKey == normalizeForCache(artist, title)
        r2 == GetByKey(r1.c, normalizedKey, t)
        hit1 == IF r1.ret # Nil THEN <<Slot("track", trackID)>> ELSE <<>>
        hit2 == IF r2.ret # Nil THEN <<Slot("key", normalizedKey)>> ELSE <<>>
    IN  IF r1.ret # Nil /\ ~IsInfoOrDemo(r1.ret)
        THEN Result(r1.c, r1.ret, FALSE, <<>>, hit1, {}, FALSE)
        ELSE IF r2.ret # Nil /\ ~IsInfoOrDemo(r2.ret)
        THEN LET s1 == SetByTrackID(r2.c, trackID, r2.ret, t)
             IN  Result(s1.c, r2.ret, FALSE, <<>>,
                        hit1 \o hit2 \o <<Slot("track", trackID)>>,
                        {Slot("track", trackID)}, s1.spins)
        ELSE LET w == WalkProviders(r2.c, provs, outcomes, 1, trackID,
                                    normalizedKey, artist, title, t)
             IN  [w EXCEPT !.touches = hit1 \o hit2 \o @]

\* ================================================================= inputs
TrackIDs == { EmptyStr, <<"t", "1">> }

\* Track IDs the poller reports; a local file has no Spotify ID.
PolledTrackIDs == { EmptyStr, <<"t", "1">> }

\* (artist, title) pairs the poller can report; they differ only in a
\* qualifier and share one normalized key.
Tracks == { <<Str_A, Str_S>>, <<Str_A, Str_S_ft_X>> }

\* Keys a direct caller passes to GetByKey / SetByKey.
DirectKeys == { <<"a", "|", "s">> }

Src_Test == <<"T", "e", "s", "t">>

\* Payloads handed to SetByTrackID / SetByKey by a direct caller.
DirectLyrics ==
    { Lyrics(EmptyStr, Src_Test, <<Line(<<"1">>, 0)>>, FALSE),
      Lyrics(EmptyStr, <<"d", "e", "m", "o">>, <<Line(<<"2">>, 0)>>, FALSE) }

\* Provider registrations: none, the one lyrics.New builds, and one without
\* the demo fallback.
ProviderLists == { <<>>, NewProviders, <<"LRCLIB", "Genius">> }

\* One network outcome per registered provider; the demo provider does not
\* use the network.
OutcomeVectors(provs) ==
    { o \in [1..Len(provs) -> Outcomes] :
        \A i \in 1..Len(provs) : provs[i] = "Demo" => o[i] = "lines" }

\* ============================================================== observers
ElemsOf(l) == { l[i] : i \in 1..Len(l) }

Slots(c) == { Slot("track", k) : k \in DOMAIN c.trackCache }
              \cup { Slot("key", k) : k \in DOMAIN c.keyCache }

SlotElem(slot) ==
    IF slot[1] = "track" THEN Elem("track", slot[2], EmptyStr)
    ELSE Elem("key", EmptyStr, slot[2])

EntryOf(c, slot) ==
    IF slot[1] = "track" THEN c.trackCache[slot[2]] ELSE c.keyCache[slot[2]]

\* the lyrics a slot holds when it is cached and not older than the TTL
FreshAt(c, slot, t) ==
    IF slot \in Slots(c) /\ t - EntryOf(c, slot).timestamp <= TTLHours
    THEN EntryOf(c, slot).lyrics ELSE Nil

StaleAt(c, slot, t) ==
    slot \in Slots(c) /\ t - EntryOf(c, slot).timestamp > TTLHours

NoOp ==
    [ op |-> "none", key |-> EmptyStr, key2 |-> EmptyStr, ret |-> Nil,
      err |-> FALSE, called |-> <<>>, removed |-> {}, inserted |-> FALSE,
      stale |-> FALSE, sizeBefore |-> 0, lruBefore |-> NoSlot, prevHit |-> NoSlot,
      preTrack |-> Nil, preKey |-> Nil, at |-> 0,
      hasLines |-> <<>>, first |-> Nil, writes |-> {}, payload |-> Nil ]

\* provider `provider` comes back with at least one line
HasLines(provider, outcome, tr) ==
    LET a == SearchLyrics(provider, outcome, tr[1], tr[2])
    IN  ~a.err /\ a.lyrics # Nil /\ Len(a.lyrics.Lines) > 0

\* what the first provider with lines, from provider i on, comes back with
RECURSIVE FirstWithLines(_, _, _, _)
FirstWithLines(provs, outcomes, tr, i) ==
    IF i > Len(provs) THEN Nil
    ELSE IF HasLines(provs[i], outcomes[i], tr)
    THEN SearchLyrics(provs[i], outcomes[i], tr[1], tr[2]).lyrics
    ELSE FirstWithLines(provs, outcomes, tr, i + 1)

\* the slot the previous call hit, if it was a Get that hit
HitOf(l) ==
    IF l.op = "GetByTrackID" /\ l.ret # Nil THEN Slot("track", l.key)
    ELSE IF l.op = "GetByKey" /\ l.ret # Nil THEN Slot("key", l.key)
    ELSE NoSlot

\* the slot whose last Set or Get hit is the oldest
LeastRecent == IF recency = <<>> THEN NoSlot ELSE recency[Len(recency)]

Observe(op, slot, ret, c2) ==
    [ NoOp EXCEPT !.op = op, !.key = slot[2], !.ret = ret, !.at = now,
                  !.removed = ElemsOf(cache.lruList) \ ElemsOf(c2.lruList),
                  !.inserted = slot \notin Slots(cache),
                  !.stale = StaleAt(cache, slot, now),
                  !.sizeBefore = Size(cache),
                  !.lruBefore = LeastRecent,
                  !.prevHit = HitOf(last) ]

\* setAt after a call that wrote the slots `writes` and left the cache c2
SetAtAfter(c2, writes) ==
    [ sl \in Slots(c2) |->
        IF sl \in writes \/ sl \notin DOMAIN setAt THEN now ELSE setAt[sl] ]

\* recency after a call that hit or wrote the slots `touches`, in that
\* order, and left the cache c2
RECURSIVE Touch(_, _)
Touch(order, touches) ==
    IF touches = <<>> THEN order
    ELSE Touch(<<Head(touches)>>
                 \o SelectSeq(order, LAMBDA sl : sl # Head(touches)),
               Tail(touches))

RecencyAfter(c2, touches) ==
    SelectSeq(Touch(recency, touches), LAMBDA sl : sl \in Slots(c2))

\* =================================================== spotify.Service state
\* Durations are in microseconds: every interval the poller can compute is a
\* whole number of them.
Second == 1000000

baseInterval == 4 * Second

maxInterval == 60 * Second

\* the two revisions of the poller: handleRateLimit backs off for a fixed 60 s
\* in one and for Retry-After + 10 s in the other, which has no lyrics service
Rev_FixedBackoff == "internal/spotify/service.go"

Rev_RetryAfter == "unnamed/part_006"

PollerRevisions == { Rev_FixedBackoff, Rev_RetryAfter }

\* spotify.New.  stopClosed, loops and panicked are the state of the stop
\* channel, the number of running pollLoop goroutines and a run-time panic;
\* fetches are the fetchAndSetLyrics goroutines in flight.
NewPoller(revision) ==
    [ revision          |-> revision,
      isPolling         |-> FALSE,
      stopClosed        |-> FALSE,
      loops             |-> 0,
      panicked          |-> FALSE,
      currentInterval   |-> baseInterval,
      lastTrackID       |-> EmptyStr,
      consecutiveErrors |-> 0,
      fetches           |-> <<>> ]

\* no poller has been built
NoPoller == NewPoller("none")

\* ======================================================= pure functions
\* no pure function has been called
NoCall == [fn |-> "none", in |-> <<>>, out |-> <<>>]

\* ========================================================= overlay.Service
\* The repository holds two revisions of the sync engine: the one with the
\* fixed lead (internal/overlay/service.go) and the one with the configured
\* offset and the line timing (unnamed/part_005, lines 501-771).
Rev_Lead   == "internal/overlay/service.go"
Rev_Offset == "unnamed/part_005"
Revisions  == {Rev_Lead, Rev_Offset}

\* overlay.New, with the Overlay.SyncOffset of the config service
NewOverlay(revision) ==
    [ revision      |-> revision,
      currentTrack  |-> Nil,
      currentLyrics |-> Nil,
      SyncOffset    |-> DefaultSyncOffset ]

TrackInfo(progress, isPlaying, updatedAt) ==
    [Progress |-> progress, IsPlaying |-> isPlaying, UpdatedAt |-> updatedAt]

DisplayInfo(currentLine, nextLine, isPlaying, lineDuration, lineProgress, lineStartTime) ==
    [ CurrentLine |-> currentLine, NextLine |-> nextLine,
      IsPlaying |-> isPlaying, LineDuration |-> lineDuration,
      LineProgress |-> lineProgress, LineStartTime |-> lineStartTime ]

\* Lines[i] with Go's index, from 0
LineAt(Lines, i) == Lines[i + 1]

\* Mutant: the elapsed time is added whether or not the track is playing.
RawProgress_IgnoresPlayState(track, t) ==
    LET elapsed == t - track.UpdatedAt
    IN  IF elapsed > 0
        THEN track.Progress + elapsed
        ELSE track.Progress

\* progress := Progress; if IsPlaying { elapsed := time.Since(UpdatedAt);
\* if elapsed > 0 { progress += elapsed } }
RawProgress(track, t) ==
    LET elapsed == t - track.UpdatedAt
    IN  IF track.IsPlaying /\ elapsed > 0
        THEN track.Progress + elapsed
        ELSE track.Progress

\* the lead or offset added to the progress
SyncOffsetOf(o) ==
    IF o.revision = Rev_Offset
    THEN IF o.SyncOffset = 0 THEN defaultSyncLeadMs ELSE o.SyncOffset
    ELSE syncLeadMs

EffectiveProgress(o, t) == RawProgress(o.currentTrack, t) + SyncOffsetOf(o)

\* Mutant: the scan stops at a line that starts exactly at the progress.
RECURSIVE ScanCurrentIdx_Strict(_, _, _, _)
ScanCurrentIdx_Strict(Lines, progress, i, currentIdx) ==
    IF i >= Len(Lines) THEN currentIdx
    ELSE IF LineAt(Lines, i).Timestamp < progress
         THEN ScanCurrentIdx_Strict(Lines, progress, i + 1, i)
         ELSE currentIdx

\* for i, line := range Lines { if line.Timestamp <= progress
\* { currentIdx = i } else { break } }
RECURSIVE ScanCurrentIdx(_, _, _, _)
ScanCurrentIdx(Lines, progress, i, currentIdx) ==
    IF i >= Len(Lines) THEN currentIdx
    ELSE IF LineAt(Lines, i).Timestamp <= progress
         THEN ScanCurrentIdx(Lines, progress, i + 1, i)
         ELSE currentIdx

\* Mutant: the scan starts with the first line as the current one.
CurrentIdx_FromFirstLine(o, t) ==
    IF /\ o.currentTrack # Nil /\ o.currentLyrics # Nil
       /\ o.currentLyrics.IsSynced /\ Len(o.currentLyrics.Lines) > 0
    THEN ScanCurrentIdx(o.currentLyrics.Lines, EffectiveProgress(o, t), 0, 0)
    ELSE -1

\* currentIdx of GetDisplayInfo: -1 outside the synced branch
CurrentIdx(o, t) ==
    IF /\ o.currentTrack # Nil /\ o.currentLyrics # Nil
       /\ o.currentLyrics.IsSynced /\ Len(o.currentLyrics.Lines) > 0
    THEN ScanCurrentIdx(o.currentLyrics.Lines, EffectiveProgress(o, t), 0, -1)
    ELSE -1

\* index of the first line at or after j with text, -1 when there is none
FirstNonEmptyFrom(Lines, j) ==
    LET found == { k \in j..(Len(Lines) - 1) : LineAt(Lines, k).Text # "" }
    IN  IF found = {} THEN -1
        ELSE CHOOSE k \in found : \A m \in found : k <= m

\* nextLineTime left by the first loop when no later line has text: the
\* timestamp of the first spacer that is not 0
FirstSpacerTime(Lines, j) ==
    LET found == { k \in j..(Len(Lines) - 1) : LineAt(Lines, k).Timestamp # 0 }
    IN  IF found = {} THEN 0
        ELSE LineAt(Lines, CHOOSE k \in found : \A m \in found : k <= m).Timestamp

\* Mutant: the line progress is not clamped.
SyncedFrame_NoClamp(o, progress, currentIdx) ==
    LET Lines == o.currentLyrics.Lines
        j     == FirstNonEmptyFrom(Lines, currentIdx + 1)
        skip  == LineAt(Lines, currentIdx).Text = "" /\ j >= 0
        k     == IF skip THEN FirstNonEmptyFrom(Lines, j + 1) ELSE -1
        currentLine   == IF skip THEN LineAt(Lines, j).Text
                         ELSE LineAt(Lines, currentIdx).Text
        lineStartTime == IF skip THEN LineAt(Lines, j).Timestamp
                         ELSE LineAt(Lines, currentIdx).Timestamp
        nextLine      == IF k >= 0 THEN LineAt(Lines, k).Text
                         ELSE IF j >= 0 THEN LineAt(Lines, j).Text
                         ELSE ""
        nextLineTime  == IF k >= 0 THEN LineAt(Lines, k).Timestamp
                         ELSE IF j >= 0 THEN LineAt(Lines, j).Timestamp
                         ELSE FirstSpacerTime(Lines, currentIdx + 1)
        lineDuration  == IF nextLineTime > lineStartTime
                         THEN nextLineTime - lineStartTime
                         ELSE DefaultLineDuration
        lineProgress  == progress - lineStartTime
    IN  IF o.revision = Rev_Offset
        THEN DisplayInfo(currentLine, nextLine, o.currentTrack.IsPlaying,
                         lineDuration, lineProgress, lineStartTime)
        ELSE DisplayInfo(currentLine, nextLine, o.currentTrack.IsPlaying,
                         0, 0, 0)

\* the frame of the synced branch for currentIdx >= 0
SyncedFrame(o, progress, currentIdx) ==
    LET Lines == o.currentLyrics.Lines
        j     == FirstNonEmptyFrom(Lines, currentIdx + 1)
        skip  == LineAt(Lines, currentIdx).Text = "" /\ j >= 0
        k     == IF skip THEN FirstNonEmptyFrom(Lines, j + 1) ELSE -1
        currentLine   == IF skip THEN LineAt(Lines, j).Text
                         ELSE LineAt(Lines, currentIdx).Text
        lineStartTime == IF skip THEN LineAt(Lines, j).Timestamp
                         ELSE LineAt(Lines, currentIdx).Timestamp
        nextLine      == IF k >= 0 THEN LineAt(Lines, k).Text
                         ELSE IF j >= 0 THEN LineAt(Lines, j).Text
                         ELSE ""
        nextLineTime  == IF k >= 0 THEN LineAt(Lines, k).Timestamp
                         ELSE IF j >= 0 THEN LineAt(Lines, j).Timestamp
                         ELSE FirstSpacerTime(Lines, currentIdx + 1)
        lineDuration  == IF nextLineTime > lineStartTime
                         THEN nextLineTime - lineStartTime
                         ELSE DefaultLineDuration
        lineProgress  == IF progress - lineStartTime < 0 THEN 0
                         ELSE IF progress - lineStartTime > lineDuration
                         THEN lineDuration
                         ELSE progress - lineStartTime
    IN  IF o.revision = Rev_Offset
        THEN DisplayInfo(currentLine, nextLine, o.currentTrack.IsPlaying,
                         lineDuration, lineProgress, lineStartTime)
        ELSE DisplayInfo(currentLine, nextLine, o.currentTrack.IsPlaying,
                         0, 0, 0)

\* Mutant: lyrics without lines are reported as no track playing.
NoLyricsFrame_NoTrack(o) ==
    DisplayInfo("No track playing", "", FALSE, 0, 0, 0)

\* the frame for lyrics without lines.  (The guitar glyph of the source is
\* left out.)
NoLyricsFrame(o) ==
    DisplayInfo("No lyrics available", "Enjoying the instrumental vibes",
                o.currentTrack.IsPlaying, 0, 0, 0)

\* Mutant: lyrics are treated as synced whether or not IsSynced is set.
GetDisplayInfo_IgnoresIsSynced(o, t) ==
    IF o.currentTrack = Nil \/ o.currentLyrics = Nil
    THEN DisplayInfo("No track playing", "", FALSE, 0, 0, 0)
    ELSE LET Lines == o.currentLyrics.Lines
             currentIdx == ScanCurrentIdx(Lines, EffectiveProgress(o, t), 0, -1)
         IN  IF Len(Lines) > 0 /\ currentIdx >= 0
             THEN SyncedFrame(o, EffectiveProgress(o, t), currentIdx)
             ELSE IF Len(Lines) > 0
             THEN DisplayInfo(Lines[1].Text,
                              IF Len(Lines) > 1 THEN Lines[2].Text ELSE "",
                              o.currentTrack.IsPlaying, 0, 0, 0)
             ELSE NoLyricsFrame(o)

\* GetDisplayInfo at wall-clock time t.  (The DisplayInfo of the revision
\* with the fixed lead has no timing fields; they are 0 here.)
GetDisplayInfo(o, t) ==
    IF o.currentTrack = Nil \/ o.currentLyrics = Nil
    THEN DisplayInfo("No track playing", "", FALSE, 0, 0, 0)
    ELSE LET Lines == o.currentLyrics.Lines
             currentIdx == CurrentIdx(o, t)
         IN  IF o.currentLyrics.IsSynced /\ Len(Lines) > 0 /\ currentIdx >= 0
             THEN SyncedFrame(o, EffectiveProgress(o, t), currentIdx)
             ELSE IF Len(Lines) > 0
             THEN DisplayInfo(Lines[1].Text,
                              IF Len(Lines) > 1 THEN Lines[2].Text ELSE "",
                              o.currentTrack.IsPlaying, 0, 0, 0)
             ELSE NoLyricsFrame(o)

\* no GetDisplayInfo call since the overlay state last changed
NoDisplay ==
    [ info |-> Nil, currentIdx |-> -1, raw |-> 0, progress |-> 0, at |-> 0,
      configured |-> FALSE, advances |-> 0 ]

\* ============================================================== sync.RWMutex
Callers == 1..MaxCallers

NoCaller == 0

\* the mutex with no holder
Unlocked == [readers |-> {}, writer |-> NoCaller]

\* a caller outside every cache call
Idle == [pc |-> "idle", op |-> "none", key |-> EmptyStr]

\* ==================================================================== state
Init ==
    /\ \E n \in 1..MaxCapacity : cache = New(n)
    /\ providers = NewProviders
    /\ now = 0
    /\ hung = FALSE
    /\ mu = Unlocked
    /\ callers = [t \in Callers |-> Idle]
    /\ fatal = FALSE
    /\ setAt = EmptyMap
    /\ recency = <<>>
    /\ last = NoOp
    /\ overlay = NewOverlay(Rev_Lead)
    /\ clock = 0
    /\ display = NoDisplay
    /\ call = NoCall
    /\ poller = NoPoller

\* A caller stuck in enforceMaxSize never returns and keeps the write lock,
\* so no later cache call gets in.
DoGetByTrackID ==
    /\ ~hung
    /\ \E trackID \in TrackIDs :
         \E r \in {GetByTrackID(cache, trackID, now)} :
             /\ cache' = r.c
             /\ setAt' = SetAtAfter(r.c, {})
             /\ recency' = RecencyAfter(r.c, IF r.ret # Nil
                                             THEN <<Slot("track", trackID)>>
                                             ELSE <<>>)
             /\ last' = Observe("GetByTrackID", Slot("track", trackID), r.ret, r.c)
    /\ UNCHANGED <<providers, now, hung, mu, callers, fatal,
                 overlay, clock, display, call, poller>>

DoGetByKey ==
    /\ ~hung
    /\ \E cacheKey \in DirectKeys :
         \E r \in {GetByKey(cache, cacheKey, now)} :
             /\ cache' = r.c
             /\ setAt' = SetAtAfter(r.c, {})
             /\ recency' = RecencyAfter(r.c, IF r.ret # Nil
                                             THEN <<Slot("key", cacheKey)>>
                                             ELSE <<>>)
             /\ last' = Observe("GetByKey", Slot("key", cacheKey), r.ret, r.c)
    /\ UNCHANGED <<providers, now, hung, mu, callers, fatal,
                 overlay, clock, display, call, poller>>

DoSetByTrackID ==
    /\ ~hung
    /\ \E trackID \in TrackIDs, lyrics \in DirectLyrics :
         \E r \in {SetByTrackID(cache, trackID, lyrics, now)} :
             /\ cache' = r.c
             /\ hung' = r.spins
             /\ setAt' = SetAtAfter(r.c, {Slot("track", trackID)})
             /\ recency' = RecencyAfter(r.c, <<Slot("track", trackID)>>)
             /\ last' = [ Observe("SetByTrackID", Slot("track", trackID), Nil, r.c)
                           EXCEPT !.payload = lyrics ]
    /\ UNCHANGED <<providers, now, mu, callers, fatal,
                 overlay, clock, display, call, poller>>

DoSetByKey ==
    /\ ~hung
    /\ \E cacheKey \in DirectKeys, lyrics \in DirectLyrics :
         \E r \in {SetByKey(cache, cacheKey, lyrics, now)} :
             /\ cache' = r.c
             /\ hung' = r.spins
             /\ setAt' = SetAtAfter(r.c, {Slot("key", cacheKey)})
             /\ recency' = RecencyAfter(r.c, <<Slot("key", cacheKey)>>)
             /\ last' = [ Observe("SetByKey", Slot("key", cacheKey), Nil, r.c)
                           EXCEPT !.payload = lyrics ]
    /\ UNCHANGED <<providers, now, mu, callers, fatal,
                 overlay, clock, display, call, poller>>

DoClear ==
    /\ ~hung
    /\ cache' = Clear(cache)
    /\ setAt' = EmptyMap
    /\ recency' = <<>>
    /\ last' = [NoOp EXCEPT !.op = "Clear", !.at = now, !.sizeBefore = Size(cache),
                            !.removed = ElemsOf(cache.lruList)]
    /\ UNCHANGED <<providers, now, hung, mu, callers, fatal,
                 overlay, clock, display, call, poller>>

DoGetLyrics ==
    /\ ~hung
    /\ \E trackID \in PolledTrackIDs, tr \in Tracks,
          outcomes \in OutcomeVectors(providers) :
         \E key \in {normalizeForCache(tr[1], tr[2])},
            r \in {GetLyrics(cache, providers, outcomes, trackID,
                             tr[1], tr[2], now)} :
             /\ cache' = r.c
             /\ hung' = r.spins
             /\ setAt' = SetAtAfter(r.c, r.writes)
             /\ recency' = RecencyAfter(r.c, r.touches)
             /\ last' = [ NoOp EXCEPT
                            !.op = "GetLyrics", !.key = trackID, !.key2 = key,
                            !.at = now,
                            !.hasLines = [i \in 1..Len(providers) |->
                                            HasLines(providers[i], outcomes[i], tr)],
                            !.first = FirstWithLines(providers, outcomes, tr, 1),
                            !.writes = r.writes,
                            !.ret = IF r.spins THEN Nil ELSE r.ret,
                            !.err = r.err, !.called = r.called,
                            !.removed = ElemsOf(cache.lruList) \ ElemsOf(r.c.lruList),
                            !.sizeBefore = Size(cache),
                            !.preTrack = FreshAt(cache, Slot("track", trackID), now),
                            !.preKey = FreshAt(cache, Slot("key", key), now) ]
    /\ UNCHANGED <<providers, now, mu, callers, fatal,
                 overlay, clock, display, call, poller>>

\* Wall-clock time passes between calls.
Tick ==
    /\ now < MaxTicks * TickHours
    /\ now' = now + TickHours
    /\ UNCHANGED <<cache, providers, hung, mu, callers, fatal, setAt, recency, last,
                 overlay, clock, display, call, poller>>

Next ==
    \/ DoGetByTrackID
    \/ DoGetByKey
    \/ DoSetByTrackID
    \/ DoSetByKey
    \/ DoClear
    \/ Tick

\* The cache under direct calls.
Spec == Init /\ [][Next]_vars

\* The resolution service on an initially empty cache; nothing but GetLyrics
\* touches the cache.
InitLyrics ==
    /\ \E n \in 1..MaxCapacity : cache = New(n)
    /\ providers \in ProviderLists
    /\ now = 0
    /\ hung = FALSE
    /\ mu = Unlocked
    /\ callers = [t \in Callers |-> Idle]
    /\ fatal = FALSE
    /\ setAt = EmptyMap
    /\ recency = <<>>
    /\ last = NoOp
    /\ overlay = NewOverlay(Rev_Lead)
    /\ clock = 0
    /\ display = NoDisplay
    /\ call = NoCall
    /\ poller = NoPoller

NextLyrics ==
    \/ DoGetLyrics
    \/ Tick

SpecLyrics == InitLyrics /\ [][NextLyrics]_vars

\* A cache that also holds info/demo results: SetByTrackID / SetByKey take
\* any payload, and GetLyrics expects to meet such entries on a hit.
DoSeed ==
    /\ ~hung
    /\ \E slot \in { Slot("track", <<"t", "1">>), Slot("key", <<"a", "|", "s">>) } :
         \E r \in { IF slot[1] = "track"
                    THEN SetByTrackID(cache, slot[2], DemoSearchLyrics(Str_A, Str_S), now)
                    ELSE SetByKey(cache, slot[2], DemoSearchLyrics(Str_A, Str_S), now) } :
             /\ cache' = r.c
             /\ hung' = r.spins
             /\ setAt' = SetAtAfter(r.c, {slot})
             /\ recency' = RecencyAfter(r.c, <<slot>>)
             /\ last' = Observe(IF slot[1] = "track" THEN "SetByTrackID" ELSE "SetByKey",
                                slot, Nil, r.c)
    /\ UNCHANGED <<providers, now, mu, callers, fatal,
                 overlay, clock, display, call, poller>>

NextSeeded ==
    \/ DoGetLyrics
    \/ DoSeed
    \/ Tick

SpecSeeded == Init /\ [][NextSeeded]_vars

\* ============================================================ concurrency
\* Cache calls of several goroutines, interleaved statement by statement.
\* GetLyrics runs in a goroutine of its own per track change, so calls of
\* one cache.Service overlap.  A caller takes mu as its first statement and
\* releases it (defer) when it returns.

\* the track IDs the concurrent callers use
SharedTrackIDs == {<<"t", "1">>}

KeysOf(op) == IF op \in {"GetByTrackID", "SetByTrackID"}
              THEN SharedTrackIDs ELSE DirectKeys

\* the map a Get looks its key up in
MapOf(c, op) == IF op = "GetByTrackID" THEN c.trackCache ELSE c.keyCache

ElemMapOf(c, op) == IF op = "GetByTrackID" THEN c.trackToElem ELSE c.keyToElem

\* another caller is inside a statement that reads or writes the maps or
\* the list
Accessing(u) == callers[u].pc \in {"lookup", "promote", "remove", "len", "write"}

Racing(t) == \E u \in Callers \ {t} : Accessing(u)

\* mu.RLock() of GetByTrackID / GetByKey
GetRLock(t) ==
    /\ ~hung /\ ~fatal
    /\ callers[t].pc = "idle"
    /\ mu.writer = NoCaller
    /\ \E op \in {"GetByTrackID", "GetByKey"} :
         \E key \in KeysOf(op) :
             callers' = [callers EXCEPT ![t] =
                           [pc |-> "lookup", op |-> op, key |-> key]]
    /\ mu' = [mu EXCEPT !.readers = @ \cup {t}]
    /\ UNCHANGED <<cache, providers, now, hung, fatal, setAt, recency, last,
                 overlay, clock, display, call, poller>>

\* entry, exists := map[key]; the TTL test
GetLookup(t) ==
    /\ ~hung /\ ~fatal
    /\ callers[t].pc = "lookup"
    /\ LET m   == MapOf(cache, callers[t].op)
           key == callers[t].key
       IN  callers' = [callers EXCEPT ![t].pc =
                         IF key \notin DOMAIN m THEN "return"
                         ELSE IF Expired(m[key], now) THEN "remove"
                         ELSE "promote"]
    /\ UNCHANGED <<cache, providers, now, hung, mu, fatal, setAt, recency, last,
                 overlay, clock, display, call, poller>>

\* s.removeEntryUnsafe(entry) of a Get, under the read lock.  Run while
\* another caller accesses the maps it is a data race: the Go runtime may
\* end the process (concurrent map read and map write), or the removal goes
\* through.
GetRemoveStale(t) ==
    /\ ~hung /\ ~fatal
    /\ callers[t].pc = "remove"
    /\ LET entry == IF callers[t].op = "GetByTrackID"
                    THEN [trackID |-> callers[t].key, cacheKey |-> EmptyStr]
                    ELSE [trackID |-> EmptyStr, cacheKey |-> callers[t].key]
       IN  \/ /\ cache' = removeEntryUnsafe(cache, entry)
              /\ fatal' = FALSE
           \/ /\ Racing(t)
              /\ cache' = cache
              /\ fatal' = TRUE
    /\ callers' = [callers EXCEPT ![t].pc = "return"]
    /\ UNCHANGED <<providers, now, hung, mu, setAt, recency, last,
                 overlay, clock, display, call, poller>>

\* s.lruList.MoveToFront(elem) of a Get, under the read lock.  Run while
\* another caller accesses the list it is a data race on the list's links:
\* the move goes through, or its writes are overwritten and the order stays,
\* or the element ends up unlinked from the chain.
GetPromote(t) ==
    /\ ~hung /\ ~fatal
    /\ callers[t].pc = "promote"
    /\ LET em  == ElemMapOf(cache, callers[t].op)
           key == callers[t].key
       IN  IF key \in DOMAIN em
           THEN \/ cache' = [cache EXCEPT !.lruList = ListMoveToFront(@, em[key])]
                \/ /\ Racing(t)
                   /\ cache' \in {cache,
                                  [cache EXCEPT !.lruList = ListRemove(@, em[key])]}
           ELSE cache' = cache
    /\ callers' = [callers EXCEPT ![t].pc = "return"]
    /\ UNCHANGED <<providers, now, hung, mu, fatal, setAt, recency, last,
                 overlay, clock, display, call, poller>>

\* mu.RLock() of Size
SizeRLock(t) ==
    /\ ~hung /\ ~fatal
    /\ callers[t].pc = "idle"
    /\ mu.writer = NoCaller
    /\ callers' = [callers EXCEPT ![t] =
                     [pc |-> "len", op |-> "Size", key |-> EmptyStr]]
    /\ mu' = [mu EXCEPT !.readers = @ \cup {t}]
    /\ UNCHANGED <<cache, providers, now, hung, fatal, setAt, recency, last,
                 overlay, clock, display, call, poller>>

\* return s.lruList.Len()
SizeLen(t) ==
    /\ ~hung /\ ~fatal
    /\ callers[t].pc = "len"
    /\ callers' = [callers EXCEPT ![t].pc = "return"]
    /\ UNCHANGED <<cache, providers, now, hung, mu, fatal, setAt, recency, last,
                 overlay, clock, display, call, poller>>

\* the deferred mu.RUnlock()
RUnlock(t) ==
    /\ ~hung /\ ~fatal
    /\ callers[t].pc = "return"
    /\ t \in mu.readers
    /\ mu' = [mu EXCEPT !.readers = @ \ {t}]
    /\ callers' = [callers EXCEPT ![t] = Idle]
    /\ UNCHANGED <<cache, providers, now, hung, fatal, setAt, recency, last,
                 overlay, clock, display, call, poller>>

\* mu.Lock() of SetByTrackID / SetByKey / Clear
WriteLock(t) ==
    /\ ~hung /\ ~fatal
    /\ callers[t].pc = "idle"
    /\ mu.writer = NoCaller /\ mu.readers = {}
    /\ \/ \E op \in {"SetByTrackID", "SetByKey"} :
            \E key \in KeysOf(op) :
                callers' = [callers EXCEPT ![t] =
                              [pc |-> "write", op |-> op, key |-> key]]
       \/ callers' = [callers EXCEPT ![t] =
                        [pc |-> "write", op |-> "Clear", key |-> EmptyStr]]
    /\ mu' = [mu EXCEPT !.writer = t]
    /\ UNCHANGED <<cache, providers, now, hung, fatal, setAt, recency, last,
                 overlay, clock, display, call, poller>>

\* the body of SetByTrackID / SetByKey / Clear, under the write lock
Write(t) ==
    /\ ~hung /\ ~fatal
    /\ callers[t].pc = "write"
    /\ \E lyrics \in DirectLyrics :
         \E r \in { IF callers[t].op = "SetByTrackID"
                    THEN SetByTrackID(cache, callers[t].key, lyrics, now)
                    ELSE IF callers[t].op = "SetByKey"
                    THEN SetByKey(cache, callers[t].key, lyrics, now)
                    ELSE [c |-> Clear(cache), spins |-> FALSE] } :
             /\ cache' = r.c
             /\ hung' = r.spins
    /\ callers' = [callers EXCEPT ![t].pc = "unlock"]
    /\ UNCHANGED <<providers, now, mu, fatal, setAt, recency, last,
                 overlay, clock, display, call, poller>>

\* the deferred mu.Unlock()
Unlock(t) ==
    /\ ~hung /\ ~fatal
    /\ callers[t].pc = "unlock"
    /\ mu.writer = t
    /\ mu' = [mu EXCEPT !.writer = NoCaller]
    /\ callers' = [callers EXCEPT ![t] = Idle]
    /\ UNCHANGED <<cache, providers, now, hung, fatal, setAt, recency, last,
                 overlay, clock, display, call, poller>>

NextConc ==
    \/ \E t \in Callers : GetRLock(t)
    \/ \E t \in Callers : GetLookup(t)
    \/ \E t \in Callers : GetRemoveStale(t)
    \/ \E t \in Callers : GetPromote(t)
    \/ \E t \in Callers : SizeRLock(t)
    \/ \E t \in Callers : SizeLen(t)
    \/ \E t \in Callers : RUnlock(t)
    \/ \E t \in Callers : WriteLock(t)
    \/ \E t \in Callers : Write(t)
    \/ \E t \in Callers : Unlock(t)
    \/ Tick

\* The cache under concurrent callers.
SpecConc == Init /\ [][NextConc]_vars

\* ==================================================== concurrent resolution
\* GetLyrics of several goroutines, interleaved at the cache calls and the
\* provider calls.  A cache call is three steps: take mu, run the body,
\* release mu (defer).  A provider call is pending from the moment the
\* caller reaches it until ResolveProviderReturns.

\* the GetLyrics call sites of cache operations
CacheSites ==
    [ getTrack |-> "GetByTrackID",    \* provider.go:61
      getKey   |-> "GetByKey",        \* provider.go:72
      setHit   |-> "SetByTrackID",    \* provider.go:77
      setTrack |-> "SetByTrackID",    \* provider.go:95
      setKey   |-> "SetByKey" ]       \* provider.go:96

\* a caller about to take mu for the cache call at `site`
AtSite(f, site, lyrics) ==
    [f EXCEPT !.pc = "lock", !.site = site, !.op = CacheSites[site],
              !.lyrics = lyrics]

\* a caller inside provider i's SearchLyrics, or done when there is none
AtProvider(f, i) ==
    IF i > Len(providers) THEN Idle
    ELSE [f EXCEPT !.pc = "call", !.i = i, !.lyrics = Nil]

\* the track the callers resolve concurrently
SharedTracks == { <<Str_A, Str_S>> }

\* GetLyrics is entered
ResolveStart(t) ==
    /\ ~hung /\ ~fatal
    /\ callers[t].pc = "idle"
    /\ \E trackID \in SharedTrackIDs, tr \in SharedTracks :
         callers' = [callers EXCEPT ![t] =
                       [ pc |-> "lock", op |-> "GetByTrackID", key |-> trackID,
                         site |-> "getTrack", trackID |-> trackID,
                         normalizedKey |-> normalizeForCache(tr[1], tr[2]),
                         artist |-> tr[1], title |-> tr[2],
                         i |-> 0, lyrics |-> Nil ]]
    /\ UNCHANGED <<cache, providers, now, hung, mu, fatal, setAt, recency, last,
                 overlay, clock, display, call, poller>>

\* mu.RLock() / mu.Lock() of the cache call
ResolveLock(t) ==
    /\ ~hung /\ ~fatal
    /\ callers[t].pc = "lock"
    /\ IF callers[t].op \in {"GetByTrackID", "GetByKey"}
       THEN /\ mu.writer = NoCaller
            /\ mu' = [mu EXCEPT !.readers = @ \cup {t}]
       ELSE /\ mu.writer = NoCaller /\ mu.readers = {}
            /\ mu' = [mu EXCEPT !.writer = t]
    /\ callers' = [callers EXCEPT ![t].pc = "body"]
    /\ UNCHANGED <<cache, providers, now, hung, fatal, setAt, recency, last,
                 overlay, clock, display, call, poller>>

\* the body of the cache call
ResolveBody(t) ==
    /\ ~hung /\ ~fatal
    /\ callers[t].pc = "body"
    /\ LET f == callers[t]
           get == IF f.op = "GetByTrackID"
                  THEN GetByTrackID(cache, f.trackID, now)
                  ELSE GetByKey(cache, f.normalizedKey, now)
           set == IF f.op = "SetByTrackID"
                  THEN SetByTrackID(cache, f.trackID, f.lyrics, now)
                  ELSE SetByKey(cache, f.normalizedKey, f.lyrics, now)
       IN  \E r \in { IF f.op \in {"GetByTrackID", "GetByKey"}
                      THEN [c |-> get.c, ret |-> get.ret, spins |-> FALSE]
                      ELSE [c |-> set.c, ret |-> f.lyrics, spins |-> set.spins] } :
             /\ cache' = r.c
             /\ hung' = r.spins
             /\ callers' = [callers EXCEPT ![t].pc = "unlock", ![t].lyrics = r.ret]
    /\ UNCHANGED <<providers, now, mu, fatal, setAt, recency, last,
                 overlay, clock, display, call, poller>>

\* Mutant: the cache call returns without releasing mu.
ResolveUnlock_KeepsLock(t) ==
    /\ ~hung /\ ~fatal
    /\ callers[t].pc = "unlock"
    /\ mu' = mu
    /\ LET f == callers[t]
           usable == f.lyrics # Nil /\ ~IsInfoOrDemo(f.lyrics)
       IN  callers' = [callers EXCEPT ![t] =
             CASE f.site = "getTrack" ->
                    IF usable THEN Idle ELSE AtSite(f, "getKey", Nil)
               [] f.site = "getKey" ->
                    IF usable THEN AtSite(f, "setHit", f.lyrics)
                    ELSE AtProvider(f, 1)
               [] f.site = "setHit" -> Idle
               [] f.site = "setTrack" -> AtSite(f, "setKey", f.lyrics)
               [] f.site = "setKey" -> Idle ]
    /\ UNCHANGED <<cache, providers, now, hung, fatal, setAt, recency, last,
                 overlay, clock, display, call, poller>>

\* the deferred unlock of the cache call, and GetLyrics up to its next
\* cache call, provider call or return
ResolveUnlock(t) ==
    /\ ~hung /\ ~fatal
    /\ callers[t].pc = "unlock"
    /\ mu' = [mu EXCEPT !.readers = @ \ {t},
                        !.writer = IF @ = t THEN NoCaller ELSE @]
    /\ LET f == callers[t]
           usable == f.lyrics # Nil /\ ~IsInfoOrDemo(f.lyrics)
       IN  callers' = [callers EXCEPT ![t] =
             CASE f.site = "getTrack" ->
                    IF usable THEN Idle ELSE AtSite(f, "getKey", Nil)
               [] f.site = "getKey" ->
                    IF usable THEN AtSite(f, "setHit", f.lyrics)
                    ELSE AtProvider(f, 1)
               [] f.site = "setHit" -> Idle
               [] f.site = "setTrack" -> AtSite(f, "setKey", f.lyrics)
               [] f.site = "setKey" -> Idle ]
    /\ UNCHANGED <<cache, providers, now, hung, fatal, setAt, recency, last,
                 overlay, clock, display, call, poller>>

\* provider.SearchLyrics returns
ResolveProviderReturns(t) ==
    /\ ~hung /\ ~fatal
    /\ callers[t].pc = "call"
    /\ LET f == callers[t]
       IN  \E outcome \in Outcomes :
             \E r \in {SearchLyrics(providers[f.i], outcome, f.artist, f.title)} :
               callers' = [callers EXCEPT ![t] =
                 IF r.err THEN AtProvider(f, f.i + 1)
                 ELSE IF r.lyrics # Nil /\ Len(r.lyrics.Lines) > 0
                 THEN LET lyrics == [r.lyrics EXCEPT !.TrackID = f.trackID]
                      IN  IF ~IsInfoOrDemo(lyrics)
                          THEN AtSite(f, "setTrack", lyrics)
                          ELSE Idle
                 ELSE AtProvider(f, f.i + 1)]
    /\ UNCHANGED <<cache, providers, now, hung, mu, fatal, setAt, recency, last,
                 overlay, clock, display, call, poller>>

NextResolve ==
    \/ \E t \in Callers : ResolveStart(t)
    \/ \E t \in Callers : ResolveLock(t)
    \/ \E t \in Callers : ResolveBody(t)
    \/ \E t \in Callers : ResolveUnlock(t)
    \/ \E t \in Callers : ResolveProviderReturns(t)
    \/ Tick

\* Concurrent resolutions on one cache, with the providers of lyrics.New.
SpecResolve == Init /\ [][NextResolve]_vars

\* ============================================================ sync engine
cacheVars == <<cache, providers, now, hung, mu, callers, fatal, setAt, recency, last>>

\* progress_ms values a poll reports
Progresses == {0, 9650, 9750}

\* what the user can set sync_offset to
ConfiguredOffsets == {-500, 0, 350}

\* milliseconds between two events of the overlay
ClockSteps == {150, 10000}

\* lyrics handed to SetCurrentLyrics: synced with a spacer line, synced
\* with out-of-order timestamps, synced starting late with a repeated
\* timestamp and trailing spacers, unsynced with two lines and with one,
\* and without lines
OverlayLyrics ==
    { Lyrics(EmptyStr, Src_Test,
             << Line("a", 0), Line("b", 10000), Line("", 15000),
                Line("c", 20000) >>, TRUE),
      Lyrics(EmptyStr, Src_Test,
             << Line("a", 10000), Line("b", 5000), Line("c", 20000) >>, TRUE),
      Lyrics(EmptyStr, Src_Test,
             << Line("a", 10000), Line("b", 10000), Line("", 10100),
                Line("", 20000) >>, TRUE),
      Lyrics(EmptyStr, Src_Test, << Line("x", 0), Line("y", 0) >>, FALSE),
      Lyrics(EmptyStr, Src_Test, << Line("z", 0) >>, FALSE),
      Lyrics(EmptyStr, Src_Test, << >>, TRUE) }

InitOverlay ==
    /\ cache = New(DefaultMaxSize)
    /\ providers = NewProviders
    /\ now = 0
    /\ hung = FALSE
    /\ mu = Unlocked
    /\ callers = [t \in Callers |-> Idle]
    /\ fatal = FALSE
    /\ setAt = EmptyMap
    /\ recency = <<>>
    /\ last = NoOp
    /\ overlay \in { NewOverlay(revision) : revision \in Revisions }
    /\ clock = 0
    /\ display = NoDisplay
    /\ call = NoCall
    /\ poller = NoPoller

\* SetCurrentTrack(track), track.UpdatedAt being time.Now() of the poll
SetCurrentTrack ==
    /\ \E track \in {Nil} \cup { TrackInfo(p, playing, clock) :
                                  p \in Progresses, playing \in BOOLEAN } :
         overlay' = [overlay EXCEPT !.currentTrack = track]
    /\ display' = [NoDisplay EXCEPT !.configured = display.configured,
                                   !.advances = display.advances]
    /\ UNCHANGED <<cacheVars, poller, clock, call>>

SetCurrentLyrics ==
    /\ \E lyrics \in {Nil} \cup OverlayLyrics :
         overlay' = [overlay EXCEPT !.currentLyrics = lyrics]
    /\ display' = [NoDisplay EXCEPT !.configured = display.configured,
                                   !.advances = display.advances]
    /\ UNCHANGED <<cacheVars, poller, clock, call>>

\* UpdateOverlayConfig with a sync_offset chosen by the user
UpdateOverlayConfig ==
    /\ \E syncOffset \in ConfiguredOffsets :
         overlay' = [overlay EXCEPT !.SyncOffset = syncOffset]
    /\ display' = [NoDisplay EXCEPT !.configured = TRUE,
                                   !.advances = display.advances]
    /\ UNCHANGED <<cacheVars, poller, clock, call>>

\* wall-clock time passes
AdvanceClock ==
    /\ display.advances < MaxAdvances
    /\ \E d \in ClockSteps : clock' = clock + d
    /\ display' = [display EXCEPT !.advances = @ + 1]
    /\ UNCHANGED <<cacheVars, poller, overlay, call>>

\* a render tick calls GetDisplayInfo
DoGetDisplayInfo ==
    /\ display' = [display EXCEPT
                     !.info = GetDisplayInfo(overlay, clock),
                     !.currentIdx = CurrentIdx(overlay, clock),
                     !.raw = IF overlay.currentTrack = Nil THEN 0
                             ELSE RawProgress(overlay.currentTrack, clock),
                     !.progress = IF overlay.currentTrack = Nil THEN 0
                                  ELSE EffectiveProgress(overlay, clock),
                     !.at = clock]
    /\ UNCHANGED <<cacheVars, poller, overlay, clock, call>>

NextOverlay ==
    \/ SetCurrentTrack
    \/ SetCurrentLyrics
    \/ UpdateOverlayConfig
    \/ AdvanceClock
    \/ DoGetDisplayInfo

\* The sync engine under polls, lyric updates, configuration changes and
\* render ticks.
SpecOverlay == InitOverlay /\ [][NextOverlay]_vars

\* ============================================================ LRC parsing
\* The LRC texts the parser is given: up to MaxLines lines drawn from LinePool,
\* joined by newlines, and one text of thirteen lines, three of them with the
\* same timestamp.
MaxLines == 2

LinePool ==
    { <<"[","0","0",":","1","2",".","3","4","]","a">>,
      <<"[","0","0",":","1","5",".","5","]","b">>,
      <<"[","0","1",":","0","2",".","3","4","5","]","c">>,
      <<"[","1",":","5","]","d">>,
      <<"[","0","0",":","1","0",".","0","0","]">>,
      <<"[","t","i",":","x","]">>,
      <<"[","0","0",":","2","0",".","0","0","]","[","0","0",":","0","5",".","0","0","]","e">>,
      <<"f">>,
      <<"g","[","0","0",":","1","2",".","3","4","]"," ","h">>,
      <<" ","[","o","f","f","s","e","t",":","1","]">>,
      <<"[","0","0",":","1","2",".","3","4","]","i">>,
      <<"[","0","0",":","0","7",".","1","2","3","4","]","j">> }

LongLRC ==
    <<"[","0",":","1","]","a","\n">> \o
    <<"[","0",":","2","]","b","\n">> \o
    <<"[","0",":","3","]","c","\n">> \o
    <<"[","0",":","5","0","]","x","\n">> \o
    <<"[","0",":","4","]","d","\n">> \o
    <<"[","0",":","5","]","e","\n">> \o
    <<"[","0",":","5","0","]","y","\n">> \o
    <<"[","0",":","6","]","f","\n">> \o
    <<"[","0",":","7","]","g","\n">> \o
    <<"[","0",":","5","0","]","z","\n">> \o
    <<"[","0",":","8","]","h","\n">> \o
    <<"[","0",":","9","]","i","\n">> \o
    <<"[","0",":","1","0","]","j">>

RECURSIVE JoinLines(_)
JoinLines(ls) ==
    IF Len(ls) = 1 THEN ls[1]
    ELSE ls[1] \o <<"\n">> \o JoinLines(Tail(ls))

LRCInputs ==
    { JoinLines(ls) : ls \in UNION { [1..n -> LinePool] : n \in 1..MaxLines } }
        \cup { LongLRC }

InitParse ==
    /\ cache = New(DefaultMaxSize)
    /\ providers = NewProviders
    /\ now = 0
    /\ hung = FALSE
    /\ mu = Unlocked
    /\ callers = [t \in Callers |-> Idle]
    /\ fatal = FALSE
    /\ setAt = EmptyMap
    /\ recency = <<>>
    /\ last = NoOp
    /\ overlay = NewOverlay(Rev_Lead)
    /\ clock = 0
    /\ display = NoDisplay
    /\ call \in { [NoCall EXCEPT !.in = lrc] : lrc \in LRCInputs }
    /\ poller = NoPoller

\* ParseSyncedLyrics(lrc) == parseLRCToLines(lrc)
ParseSyncedLyrics ==
    /\ call.fn = "none"
    /\ \E lines \in parseLRCToLines(call.in) :
         call' = [fn |-> "ParseSyncedLyrics", in |-> call.in, out |-> lines]
    /\ UNCHANGED <<cacheVars, poller, overlay, clock, display>>

NextParse == ParseSyncedLyrics

SpecParse == InitParse /\ [][NextParse]_vars

\* ======================================================= title normalizing
\* The titles the normalizer is given: a title followed by up to
\* MaxQualifiers qualifiers.
MaxQualifiers == 2

TitleBases ==
    { <<"S","o","n","g">>,
      <<"S","o","n","g"," ","(","L","i","v","e",")">>,
      <<"J","a","y","-","Z">>,
      <<" "," ","M","e"," ","&"," "," ","Y","o","u","!"," ">> }

Qualifiers ==
    { <<" ","(","f","e","a","t","."," ","A","r","t","i","s","t",")">>,
      <<" ","(","f","t","."," ","X",")">>,
      <<" ","(","f","e","a","t","u","r","i","n","g"," ","X",")">>,
      <<" ","[","R","e","m","a","s","t","e","r","e","d"," ","2","0","2","4","]">>,
      <<" ","(","R","e","m","i","x",")">>,
      <<" ","(","A","l","b","u","m"," ","V","e","r","s","i","o","n",")">>,
      <<" ","(","R","a","d","i","o"," ","E","d","i","t",")">>,
      <<" ","-"," ","R","e","m","a","s","t","e","r">>,
      <<" ","-"," ","R","e","m","i","x">>,
      <<" ","-"," ","R","a","d","i","o"," ","E","d","i","t">>,
      <<" ","-"," ","E","x","t","e","n","d","e","d"," ","V","e","r","s","i","o","n">> }

RECURSIVE Concat(_)
Concat(ss) == IF ss = <<>> THEN <<>> ELSE Head(ss) \o Concat(Tail(ss))

QualifierLists == UNION { [1..n -> Qualifiers] : n \in 0..MaxQualifiers }

Qualified(base, qs) == base \o Concat(qs)

TitleInputs == { Qualified(base, qs) : base \in TitleBases, qs \in QualifierLists }

InitNormalize ==
    /\ cache = New(DefaultMaxSize)
    /\ providers = NewProviders
    /\ now = 0
    /\ hung = FALSE
    /\ mu = Unlocked
    /\ callers = [t \in Callers |-> Idle]
    /\ fatal = FALSE
    /\ setAt = EmptyMap
    /\ recency = <<>>
    /\ last = NoOp
    /\ overlay = NewOverlay(Rev_Lead)
    /\ clock = 0
    /\ display = NoDisplay
    /\ call \in { [NoCall EXCEPT !.in = title] : title \in TitleInputs }
    /\ poller = NoPoller

\* NormalizeTitle(title) == normalizeString(title)
NormalizeTitle ==
    /\ call.fn = "none"
    /\ call' = [fn |-> "NormalizeTitle", in |-> call.in,
                out |-> normalizeString(call.in)]
    /\ UNCHANGED <<cacheVars, poller, overlay, clock, display>>

\* NormalizeTitle applied to its own result
NormalizeTitleAgain ==
    /\ call.fn = "NormalizeTitle"
    /\ call' = [fn |-> "NormalizeTitleAgain", in |-> call.in,
                out |-> normalizeString(call.out)]
    /\ UNCHANGED <<cacheVars, poller, overlay, clock, display>>

NextNormalize ==
    \/ NormalizeTitle
    \/ NormalizeTitleAgain

SpecNormalize == InitNormalize /\ [][NextNormalize]_vars

\* ========================================================= spotify.Service
\* adjustInterval; float64(currentInterval) * 1.5 is exact for every interval
\* the poller reaches
adjustInterval(p, isPlaying, hasError) ==
    IF hasError
    THEN LET d == (p.currentInterval * 3) \div 2
         IN  [p EXCEPT !.currentInterval = IF d > maxInterval THEN maxInterval ELSE d]
    ELSE IF isPlaying
    THEN [p EXCEPT !.currentInterval = baseInterval]
    ELSE [p EXCEPT !.currentInterval = baseInterval * 3]

resetInterval(p) ==
    [p EXCEPT !.currentInterval = baseInterval, !.consecutiveErrors = 0]

\* handleRateLimit; retryAfter is the Retry-After header of the response as
\* strconv.Atoi reads it, <<>> when absent or not a number
handleRateLimit(p, retryAfter) ==
    LET d == IF p.revision = Rev_FixedBackoff THEN 60 * Second
             ELSE IF retryAfter = <<>> THEN (60 + 10) * Second
             ELSE (retryAfter[1] + 10) * Second
    IN  [p EXCEPT !.currentInterval = IF d > maxInterval THEN maxInterval ELSE d]

\* handleError; the result is the poller and the overlay
handleError(p, o, resp) ==
    LET p1 == [p EXCEPT !.consecutiveErrors = @ + 1]
    IN  IF resp.kind = "ratelimit"
        THEN [p |-> handleRateLimit(p1, resp.retryAfter), o |-> o]
        ELSE [p |-> IF p1.consecutiveErrors >= 3
                    THEN adjustInterval(p1, FALSE, TRUE) ELSE p1,
              o |-> IF p1.consecutiveErrors >= 5
                    THEN [o EXCEPT !.currentTrack = Nil] ELSE o]

handleNoPlayback(p, o) ==
    [p |-> adjustInterval(p, FALSE, TRUE), o |-> [o EXCEPT !.currentTrack = Nil]]

handleNonMusicContent(p, o) ==
    [p |-> adjustInterval(p, FALSE, FALSE), o |-> [o EXCEPT !.currentTrack = Nil]]

\* extractTrackInfo of a response that carries an item
extractTrackInfo(resp, t) ==
    [ ID |-> resp.item.ID, Name |-> resp.item.Name, Artists |-> resp.item.Artists,
      Progress |-> 0, IsPlaying |-> resp.playing, UpdatedAt |-> t ]

\* Mutant: every poll that delivers a track starts a fetch.
TrackChanged_Always(p, track) == TRUE

\* track.ID != s.lastTrackID
TrackChanged(p, track) == track.ID # p.lastTrackID

\* pollCurrentlyPlaying for the response resp of the client at time t
pollCurrentlyPlaying(p, o, resp, t) ==
    IF resp.kind = "noclient"
    THEN [p |-> adjustInterval(p, FALSE, TRUE), o |-> [o EXCEPT !.currentTrack = Nil]]
    ELSE IF resp.kind \in {"error", "ratelimit"} THEN handleError(p, o, resp)
    ELSE IF resp.kind = "nostate" THEN handleNoPlayback(p, o)
    ELSE IF p.revision = Rev_RetryAfter /\ resp.type # "track"
    THEN handleNonMusicContent(p, o)
    ELSE LET track   == extractTrackInfo(resp, t)
             changed == TrackChanged(p, track)
             fetch   == changed /\ p.revision = Rev_FixedBackoff
             p1 == IF changed
                   THEN [resetInterval(p) EXCEPT !.lastTrackID = track.ID]
                   ELSE p
             p2 == IF fetch THEN [p1 EXCEPT !.fetches = Append(@, track)] ELSE p1
             p3 == adjustInterval(p2, track.IsPlaying, FALSE)
         IN  [p |-> [p3 EXCEPT !.consecutiveErrors = 0],
              o |-> [o EXCEPT !.currentTrack = track]]

\* ------------------------------------------------------------ poller inputs
MaxErrors == 5

MaxFetches == 2

\* items of PlayerCurrentlyPlaying: two tracks
PollItems ==
    { [ID |-> <<"t", "1">>, Name |-> Str_S, Artists |-> <<Str_A>>],
      [ID |-> <<"t", "2">>, Name |-> Str_S, Artists |-> <<Str_B>>] }

\* values of the Retry-After header, <<>> when it is absent
RetryAfters == { <<>>, <<30>>, <<-8>>, <<-10>> }

Response(kind, item, type, playing, retryAfter) ==
    [kind |-> kind, item |-> item, type |-> type, playing |-> playing,
     retryAfter |-> retryAfter]

\* responses of a poll: every kind, for one track
Responses ==
    { Response(kind, Nil, "", FALSE, <<>>) : kind \in {"noclient", "error", "nostate"} }
      \cup { Response("ratelimit", Nil, "", FALSE, ra) : ra \in RetryAfters }
      \cup { Response("item", item, type, playing, <<>>) :
               item \in { i \in PollItems : i.ID = <<"t", "1">> },
               type \in {"track", "episode"}, playing \in BOOLEAN }

\* responses of a poll while music plays: every item, or no playback
TrackResponses ==
    { Response("nostate", Nil, "", FALSE, <<>>) }
      \cup { Response("item", item, "track", TRUE, <<>>) : item \in PollItems }

\* ----------------------------------------------------------- poller actions
InitPoller ==
    /\ cache = New(DefaultMaxSize)
    /\ providers = NewProviders
    /\ now = 0
    /\ hung = FALSE
    /\ mu = Unlocked
    /\ callers = [t \in Callers |-> Idle]
    /\ fatal = FALSE
    /\ setAt = EmptyMap
    /\ recency = <<>>
    /\ last = NoOp
    /\ overlay = NewOverlay(Rev_Lead)
    /\ clock = 0
    /\ display = NoDisplay
    /\ call = NoCall
    /\ poller \in { NewPoller(revision) : revision \in PollerRevisions }

PollerUnchanged ==
    UNCHANGED <<providers, now, mu, callers, fatal, setAt, recency, last,
                clock, display, call>>

\* Service.Start: go s.pollLoop()
Start ==
    /\ ~poller.panicked
    /\ poller' = IF poller.isPolling THEN poller
                 ELSE [poller EXCEPT !.isPolling = TRUE, !.loops = @ + 1]
    /\ UNCHANGED <<cache, hung, overlay>>
    /\ PollerUnchanged

\* Service.Stop: closing a closed channel panics
Stop ==
    /\ ~poller.panicked
    /\ poller' = IF ~poller.isPolling THEN poller
                 ELSE IF poller.stopClosed
                 THEN [poller EXCEPT !.isPolling = FALSE, !.panicked = TRUE]
                 ELSE [poller EXCEPT !.isPolling = FALSE, !.stopClosed = TRUE]
    /\ UNCHANGED <<cache, hung, overlay>>
    /\ PollerUnchanged

\* pollLoop: case <-s.stopChan: return
PollLoopReturns ==
    /\ ~poller.panicked
    /\ poller.loops > 0 /\ poller.stopClosed
    /\ poller' = [poller EXCEPT !.loops = @ - 1]
    /\ UNCHANGED <<cache, hung, overlay>>
    /\ PollerUnchanged

\* pollLoop: case <-ticker.C: pollCurrentlyPlaying, then ticker.Reset, which
\* panics for a non-positive interval
Poll(resp) ==
    /\ ~poller.panicked
    /\ poller.loops > 0
    /\ resp.kind \in {"error", "ratelimit"} => poller.consecutiveErrors < MaxErrors
    /\ Len(poller.fetches) < MaxFetches
    /\ \E r \in {pollCurrentlyPlaying(poller, overlay, resp, clock)} :
         /\ poller' = [r.p EXCEPT !.panicked = r.p.currentInterval <= 0]
         /\ overlay' = r.o
    /\ UNCHANGED <<cache, hung>>
    /\ PollerUnchanged

PollTick == \E resp \in Responses : Poll(resp)

PollTrack == \E resp \in TrackResponses : Poll(resp)

\* fetchAndSetLyrics(track) of the i-th fetch in flight, from the return of
\* GetLyrics on
FetchAndSetLyrics ==
    /\ ~poller.panicked /\ ~hung
    /\ \E i \in 1..Len(poller.fetches), outcomes \in OutcomeVectors(providers) :
         \E track \in {poller.fetches[i]} :
           \E r \in {GetLyrics(cache, providers, outcomes, track.ID,
                               track.Artists[1], track.Name, now)} :
             /\ cache' = r.c
             /\ hung' = r.spins
             /\ poller' = [poller EXCEPT
                             !.fetches = SubSeq(@, 1, i - 1)
                                           \o SubSeq(@, i + 1, Len(@))]
             /\ overlay' = IF r.spins THEN overlay
                           ELSE IF r.err \/ r.ret = Nil
                           THEN [overlay EXCEPT !.currentLyrics = Nil]
                           ELSE [overlay EXCEPT !.currentLyrics = r.ret]
    /\ PollerUnchanged

NextPoller ==
    \/ Start
    \/ Stop
    \/ PollLoopReturns
    \/ PollTick
    \/ FetchAndSetLyrics

SpecPoller == InitPoller /\ [][NextPoller]_vars

\* the poller of main.go, started, while music plays
InitFetch ==
    /\ InitPoller
    /\ poller.revision = Rev_FixedBackoff

NextFetch ==
    \/ Start
    \/ PollTrack
    \/ FetchAndSetLyrics

SpecFetch == InitFetch /\ [][NextFetch]_vars

\* ============================================================ noise filter
\* The texts the filter is given: up to MaxRawLines lines drawn from
\* RawLinePool, joined by newlines, and one scraped page that meets every drop
\* rule.
MaxRawLines == 4

RawLinePool ==
    { <<>>,
      <<" "," ">>,
      <<"l","a"," ","l","a">>,
      <<" ","S","e","e"," ","m","o","r","e"," ">>,
      <<"1","2"," ","E","m","b","e","d">>,
      <<"D","e","u","t","s","c","h"," "," ","F","r","a","n","c","a","i","s">>,
      <<"s","e","e","s","a","w">> }

ScrapedPage ==
    <<"G","e","n","i","u","s"," ","A","n","n","o","t","a","t","i","o","n"," ","1","\n">> \o
    <<"3"," ","C","o","n","t","r","i","b","u","t","o","r","s","\n">> \o
    <<"T","r","a","n","s","l","a","t","i","o","n","s","\n">> \o
    <<"Y","o","u"," ","M","i","g","h","t"," ","A","l","s","o"," ","L","i","k","e","\n">> \o
    <<"\t","l","a"," ","l","a","\r","\n">> \o
    <<"\n">> \o
    <<"B","a","h","a","s","a"," ","I","n","d","o","n","e","s","i","a","\n">> \o
    <<"e","m","b","e","d","\n">> \o
    <<" ","\n">> \o
    <<"\n">> \o
    <<"7"," "," ","E","M","B","E","D","\n">> \o
    <<"S","u","o","m","i"," ","D","a","n","s","k"," ","N","o","r","s","k"," ","P","o","l","s","k","i","\n">> \o
    <<"S","e","e","\n">> \o
    <<"H","e","b","r","e","w","\n">> \o
    <<>>

RawTexts ==
    { JoinLines(ls) : ls \in UNION { [1..n -> RawLinePool] : n \in 1..MaxRawLines } }
        \cup { ScrapedPage }

InitFilter ==
    /\ cache = New(DefaultMaxSize)
    /\ providers = NewProviders
    /\ now = 0
    /\ hung = FALSE
    /\ mu = Unlocked
    /\ callers = [t \in Callers |-> Idle]
    /\ fatal = FALSE
    /\ setAt = EmptyMap
    /\ recency = <<>>
    /\ last = NoOp
    /\ overlay = NewOverlay(Rev_Lead)
    /\ clock = 0
    /\ display = NoDisplay
    /\ call \in { [NoCall EXCEPT !.in = text] : text \in RawTexts }
    /\ poller = NoPoller

\* the scraping provider hands the page text to textToLyricsLines
TextToLyricsLines ==
    /\ call.fn = "none"
    /\ call' = [fn |-> "textToLyricsLines", in |-> call.in,
                out |-> textToLyricsLines(call.in)]
    /\ UNCHANGED <<cacheVars, poller, overlay, clock, display>>

NextFilter == TextToLyricsLines

SpecFilter == InitFilter /\ [][NextFilter]_vars

\* ================================================================== LRCLIB
\* What the provider is asked and what LRCLIB answers: search results of up
\* to MaxResults records drawn from SearchRecords, with or without an exact
\* match, and a database that answers /get/{id} with the full record, with a
\* record without lyrics, or not at all.
MaxResults == 2

Str_lrc  == <<"[","0",":","1","]","a">>
Str_la   == <<"l","a">>

SearchRecords ==
    { lrcLibTrack(1, Str_S, Str_A, Str_la, Str_lrc),
      lrcLibTrack(2, Str_S_ft_X, Str_A, <<>>, Str_lrc),
      lrcLibTrack(3, Str_S, Str_B, Str_la, <<>>),
      lrcLibTrack(4, Str_S, Str_A, <<>>, <<>>),
      lrcLibTrack(5, Str_S, Str_B, <<>>, <<>>),
      lrcLibTrack(6, Str_S, Str_A, Str_la, Str_lrc),
      lrcLibTrack(7, Str_B, Str_A, Str_la, <<>>) }

ResultLists == UNION { [1..n -> SearchRecords] : n \in 0..MaxResults }

\* the record LRCLIB stores under id
FullRecord(id) ==
    lrcLibTrack(id, Str_S, Str_A, <<"f","u","l","l"," ">> \o <<"a","b","c","d","e","f","g">>[id], <<>>)

IDs == { r.ID : r \in SearchRecords }

Databases ==
    { [id \in IDs |-> Reply(FALSE, FullRecord(id))],
      [id \in IDs |-> Reply(FALSE, lrcLibTrack(id, Str_S, Str_A, <<>>, <<>>))],
      [id \in IDs |-> Reply(TRUE, Nil)] }

ExactMatches ==
    { Reply(TRUE, Nil),
      Reply(FALSE, lrcLibTrack(8, Str_S, Str_A, <<>>, <<"[","t","i",":","x","]">>)),
      Reply(FALSE, lrcLibTrack(9, Str_S, Str_A, <<"e">>, <<>>)) }

Servers ==
    { [get |-> g, search |-> s, query |-> q, byID |-> db] :
        g \in ExactMatches,
        s \in { Reply(TRUE, <<>>) } \cup { Reply(FALSE, rs) : rs \in ResultLists },
        q \in { Reply(TRUE, <<>>), Reply(FALSE, <<>>),
                Reply(FALSE, <<lrcLibTrack(3, Str_S, Str_B, Str_la, <<>>)>>) },
        db \in Databases }

InitLRCLib ==
    /\ cache = New(DefaultMaxSize)
    /\ providers = NewProviders
    /\ now = 0
    /\ hung = FALSE
    /\ mu = Unlocked
    /\ callers = [t \in Callers |-> Idle]
    /\ fatal = FALSE
    /\ setAt = EmptyMap
    /\ recency = <<>>
    /\ last = NoOp
    /\ overlay = NewOverlay(Rev_Lead)
    /\ clock = 0
    /\ display = NoDisplay
    /\ call \in { [NoCall EXCEPT !.in = srv] : srv \in Servers }
    /\ poller = NoPoller

\* provider.SearchLyrics(artist, title) for the track "S" by "A"
DoSearchLyrics ==
    /\ call.fn = "none"
    /\ \E ret \in LRCLibSearchLyrics(call.in, Str_A, Str_S) :
         call' = [fn |-> "SearchLyrics", in |-> call.in, out |-> ret]
    /\ UNCHANGED <<cacheVars, poller, overlay, clock, display>>

\* pickBestLRCLibMatch(results, artist, title) on the search response
DoPickBest ==
    /\ call.fn = "none"
    /\ ~call.in.search.err
    /\ call' = [fn |-> "pickBestLRCLibMatch", in |-> call.in,
                out |-> pickBestLRCLibMatch(call.in.search.body, Str_A, Str_S)]
    /\ UNCHANGED <<cacheVars, poller, overlay, clock, display>>

NextLRCLib ==
    \/ DoSearchLyrics
    \/ DoPickBest

SpecLRCLib == InitLRCLib /\ [][NextLRCLib]_vars

\* ================================================================== claims
Gets == {"GetByTrackID", "GetByKey"}

Sets == {"SetByTrackID", "SetByKey"}

\* the slot the last direct cache call addressed
LastSlot == Slot(IF last.op \in {"GetByTrackID", "SetByTrackID"}
                 THEN "track" ELSE "key", last.key)

\* C1: after every cache operation that has returned, Size() <= capacity.
C1_SizeWithinCapacity == ~hung => Size(cache) <= cache.maxSize

\* C1 witness: a Set of a new key has evicted and returned with a full cache.
C1_Witness ==
    /\ ~hung /\ last.op \in Sets /\ last.inserted /\ last.removed # {}
    /\ Size(cache) = cache.maxSize

C3_EvictsLeastRecentlyUsed ==
    (last.op \in Sets /\ last.inserted /\ last.sizeBefore = cache.maxSize)
        => /\ ~hung
           /\ last.removed = {SlotElem(last.lruBefore)}
           /\ last.lruBefore \notin Slots(cache)
           /\ Cardinality(Slots(cache)) = cache.maxSize
           /\ LastSlot \in Slots(cache)

\* C4: a Get that hits makes the entry the most recently used one; with
\* capacity >= 2 the next insertion of a new key does not evict it.
C4_HitIsMostRecent ==
    /\ (last.op \in Gets /\ last.ret # Nil)
          => cache.lruList[1] = SlotElem(LastSlot)
    /\ (last.op \in Sets /\ last.inserted /\ last.prevHit # NoSlot
        /\ cache.maxSize >= 2)
          => /\ last.prevHit \in Slots(cache)
             /\ SlotElem(last.prevHit) \in ElemsOf(cache.lruList)

\* C4 witness: right after a hit, an insertion into a full cache of
\* capacity >= 2 has evicted another entry.
C4_Witness ==
    /\ last.op \in Sets /\ last.inserted /\ last.prevHit # NoSlot
    /\ cache.maxSize >= 2 /\ last.removed # {} /\ ~hung
    /\ last.prevHit \in Slots(cache)

\* C5: a Get never returns an entry whose last Set is more than 24 hours
\* back; the age counts from the write, whatever hits came in between.
C5_NoStaleReturn ==
    (last.op \in Gets /\ last.ret # Nil)
        => /\ LastSlot \in DOMAIN setAt
           /\ last.at - setAt[LastSlot] <= TTLHours

\* C5 witness: an entry that was hit by the previous call is found stale and
\* reported absent.
C5_Witness ==
    /\ last.op \in Gets /\ last.stale /\ last.ret = Nil
    /\ last.prevHit = LastSlot

\* C6: a lookup that finds an entry older than 24 hours returns absent and
\* removes it from its map and the LRU list, for every key string.
C6_StaleLookupRemoves ==
    (last.op \in Gets /\ last.stale)
        => /\ last.ret = Nil
           /\ LastSlot \notin Slots(cache)
           /\ SlotElem(LastSlot) \notin ElemsOf(cache.lruList)
           /\ Size(cache) = last.sizeBefore - 1

\* a caller is at a statement that modifies the maps or the LRU list
Mutating(t) == callers[t].pc \in {"promote", "remove", "write"}

\* C7: under every interleaving of concurrent cache calls, a caller that is
\* about to modify the maps or the LRU order holds exclusive access (the
\* write lock), and no other caller is reading or modifying them meanwhile.
C7_MutationsHoldExclusiveAccess ==
    \A t \in Callers :
        Mutating(t) => /\ mu.writer = t
                       /\ \A u \in Callers \ {t} : ~Accessing(u)

\* the lyrics every cached slot holds
Contents(c) == [sl \in Slots(c) |-> EntryOf(c, sl)]

\* a result of the placeholder provider: its source reads Info or Demo
IsPlaceholder(lyrics) ==
    ToLower(lyrics.Source) \in { <<"i", "n", "f", "o">>, <<"d", "e", "m", "o">> }

PlaceholderReturned ==
    last.op = "GetLyrics" /\ last.ret # Nil /\ IsPlaceholder(last.ret)

C9_TrackHitReturnsCached ==
    (last.op = "GetLyrics" /\ last.preTrack # Nil /\ ~IsInfoOrDemo(last.preTrack))
        => /\ last.ret = last.preTrack
           /\ ~last.err
           /\ last.called = <<>>

\* C9 witness: GetLyrics has answered from the track-ID slot after time has
\* passed.
C9_Witness ==
    /\ last.op = "GetLyrics" /\ last.preTrack # Nil
    /\ ~IsInfoOrDemo(last.preTrack) /\ last.ret = last.preTrack /\ last.at > 0

\* C10: when the trackId lookup misses and the normalized-key lookup hits a
\* non-placeholder entry, GetLyrics returns that entry, calls no provider and
\* stores it under trackId, so GetByTrackID(trackId) right after yields it.
C10_KeyHitPopulatesTrackSlot ==
    (last.op = "GetLyrics" /\ last.preTrack = Nil /\ last.preKey # Nil
     /\ ~IsInfoOrDemo(last.preKey))
        => /\ ~hung
           /\ last.ret = last.preKey
           /\ last.called = <<>>
           /\ GetByTrackID(cache, last.key, last.at).ret = last.preKey

\* ------------------------------------------------------------------- C11
\* the last GetLyrics call found no usable entry under either key
CacheMiss ==
    /\ last.op = "GetLyrics"
    /\ last.preTrack = Nil \/ IsPlaceholder(last.preTrack)
    /\ last.preKey = Nil \/ IsPlaceholder(last.preKey)

\* C11: on a cache miss the providers are called in registration order, each
\* at most once; one that fails or has no lines is skipped; the first one
\* with lines determines the result and none after it is called.
C11_ProvidersInOrder ==
    CacheMiss =>
        LET k == Len(last.called)
        IN  /\ k <= Len(providers)
            /\ \A i \in 1..k : last.called[i] = i
            /\ \A i \in 1..(k - 1) : ~last.hasLines[i]
            /\ IF \E i \in 1..Len(providers) : last.hasLines[i]
               THEN /\ k >= 1 /\ last.hasLines[k]
                    /\ ~hung => last.ret = [last.first EXCEPT !.TrackID = last.key]
               ELSE k = Len(providers) /\ last.ret = Nil

\* C11 witness: the first provider had nothing, the second one had lines and
\* its result was returned.
C11_Witness ==
    /\ CacheMiss /\ ~hung /\ Len(last.called) = 2
    /\ ~last.hasLines[1] /\ last.hasLines[2]
    /\ last.ret # Nil /\ ~IsPlaceholder(last.ret)

\* ------------------------------------------------------------------- C12
\* the last GetLyrics call has returned a result that came from a provider
ProviderResult ==
    last.op = "GetLyrics" /\ ~hung /\ last.called # <<>> /\ last.ret # Nil

\* C12: a non-placeholder result obtained from a provider is retrievable
\* under the track ID and under the normalized key at the moment GetLyrics
\* returns, for every capacity >= 1; for a placeholder result neither key is
\* written.
C12_ResultCachedUnderBothKeys ==
    /\ (ProviderResult /\ ~IsPlaceholder(last.ret))
          => /\ GetByTrackID(cache, last.key, last.at).ret = last.ret
             /\ GetByKey(cache, last.key2, last.at).ret = last.ret
    /\ (ProviderResult /\ IsPlaceholder(last.ret)) => last.writes = {}

\* ------------------------------------------------------------------- C13
\* no registered provider came back with lines in the last GetLyrics call
AllProvidersFailed ==
    CacheMiss /\ \A i \in 1..Len(last.hasLines) : ~last.hasLines[i]

\* C13: when every registered provider fails or has no lines (or none is
\* registered), GetLyrics returns a not-found error and no result, and the
\* cache is as its two lookups left it, before the provider walk.
C13_NotFoundLeavesCache ==
    [][ (AllProvidersFailed' /\ now' = now) =>
          /\ last'.err /\ last'.ret = Nil /\ ~hung'
          /\ Len(last'.called) = Len(providers)
          /\ cache' = GetByKey(GetByTrackID(cache, last'.key, now).c,
                               last'.key2, now).c ]_vars

\* C13 witness: two providers were called, both failed, GetLyrics reported
\* not-found and the cache holds entries.
C13_Witness ==
    /\ AllProvidersFailed /\ Len(last.called) = 2 /\ last.err
    /\ Size(cache) > 0

\* ------------------------------------------------------------------- C14
\* C14: with the provider list of lyrics.New (placeholder provider last)
\* GetLyrics never fails: it returns a result with at least one line,
\* whatever the earlier providers come back with.
C14_NeverEmptyHanded ==
    (last.op = "GetLyrics" /\ providers = NewProviders)
        => /\ ~hung
           /\ ~last.err
           /\ last.ret # Nil
           /\ Len(last.ret.Lines) >= 1

\* ------------------------------------------------------------------- C15
HoldsLock(t) == mu.writer = t \/ t \in mu.readers

\* C15: a caller whose provider call is in progress does not hold the cache
\* lock; the lock is held only inside a single cache Get / Set.
C15_NoLockDuringProviderCall ==
    \A t \in Callers :
        /\ callers[t].pc = "call" => ~HoldsLock(t)
        /\ HoldsLock(t) => callers[t].pc \in {"body", "unlock"}

\* C15 witness: while one caller's provider call is pending, another caller
\* has taken the write lock and completed the body of its cache Set.
C15_Witness ==
    \E t, u \in Callers :
        /\ t # u
        /\ callers[t].pc = "call"
        /\ callers[u].pc = "unlock" /\ mu.writer = u
        /\ callers[u].op = "SetByKey"

\* ------------------------------------------------------------------- C16
\* the last operation was a Set on a key that was already present
UpdatedExisting ==
    /\ last.op \in {"SetByTrackID", "SetByKey"}
    /\ ~last.inserted

UpdatedSlot ==
    Slot(IF last.op = "SetByTrackID" THEN "track" ELSE "key", last.key)

\* C16: a Set on a key that is already present replaces the payload the Get
\* for that key returns, and leaves Size() and every other entry as they
\* were: nothing is evicted.
C16_UpdateInPlace ==
    [][ (UpdatedExisting' /\ now' = now) =>
          /\ ~hung'
          /\ IF last'.op = "SetByTrackID"
             THEN GetByTrackID(cache', last'.key, now).ret = last'.payload
             ELSE GetByKey(cache', last'.key, now).ret = last'.payload
          /\ Size(cache') = Size(cache)
          /\ Slots(cache') = Slots(cache)
          /\ \A s \in Slots(cache) \ {UpdatedSlot'} :
                EntryOf(cache', s) = EntryOf(cache, s) ]_vars

\* C16 witness: a key of a full cache, holding another payload next to
\* another entry, has been set again.
C16_Witness ==
    /\ UpdatedExisting
    /\ last.sizeBefore = cache.maxSize
    /\ Size(cache) >= 2
    /\ EntryOf(cache, UpdatedSlot).lyrics = last.payload
    /\ \E s \in Slots(cache) : EntryOf(cache, s).lyrics # last.payload

\* ------------------------------------------------------------------- C17
\* C17: after Clear() the cache is empty, no key of either key space is
\* found any more, and the capacity is the one it had.
C17_ClearEmptiesCache ==
    [][ (last'.op = "Clear" /\ now' = now) =>
          /\ Size(cache') = 0
          /\ \A trackID \in TrackIDs :
                GetByTrackID(cache', trackID, now).ret = Nil
          /\ \A cacheKey \in DirectKeys :
                GetByKey(cache', cacheKey, now).ret = Nil
          /\ Stats(cache').MaxSize = Stats(cache).MaxSize ]_vars

\* C17 witness: a cache with fresh entries in both key spaces was cleared.
C17_Witness ==
    /\ last.op = "Clear"
    /\ last.sizeBefore >= 2
    /\ \E e1, e2 \in last.removed : e1.space = "track" /\ e2.space = "key"
    /\ Size(cache) = 0

\* ------------------------------------------------------------------- C18
\* the last render went through the synced branch's scan
RenderedSynced ==
    /\ display.info # Nil
    /\ overlay.currentTrack # Nil /\ overlay.currentLyrics # Nil
    /\ overlay.currentLyrics.IsSynced
    /\ Len(overlay.currentLyrics.Lines) > 0

InTimestampOrder(Lines) ==
    \A i \in 1..(Len(Lines) - 1) : Lines[i].Timestamp <= Lines[i + 1].Timestamp

\* greatest index whose line has started at `progress`, -1 when none has
GreatestStarted(Lines, progress) ==
    LET started == { i \in 0..(Len(Lines) - 1) :
                       LineAt(Lines, i).Timestamp <= progress }
    IN  IF started = {} THEN -1
        ELSE CHOOSE i \in started : \A m \in started : m <= i

\* C18: for synced lyrics in non-decreasing timestamp order the current-line
\* index is the greatest i with Lines[i].Timestamp <= effective progress.
C18_CurrentIndexIsLastStarted ==
    (RenderedSynced /\ InTimestampOrder(overlay.currentLyrics.Lines)) =>
        display.currentIdx =
            GreatestStarted(overlay.currentLyrics.Lines, display.progress)

\* C18 witness: the effective progress is exactly the timestamp of the line
\* found, which is not the first one and not the last one.
C18_Witness ==
    /\ RenderedSynced /\ InTimestampOrder(overlay.currentLyrics.Lines)
    /\ display.currentIdx >= 1
    /\ display.currentIdx + 1 < Len(overlay.currentLyrics.Lines)
    /\ LineAt(overlay.currentLyrics.Lines, display.currentIdx).Timestamp
         = display.progress

\* ------------------------------------------------------------------- C19
\* C19: the progress the scan uses, without the offset, is the snapshot's
\* progress plus the milliseconds since the snapshot for a playing track and
\* the snapshot's progress alone for a paused one; as long as the snapshot
\* stays, a paused track renders the same frame and a playing track's
\* current-line index never decreases.
C19_ProgressFollowsPlayState ==
    [][ /\ RenderedSynced' =>
             display'.progress - SyncOffsetOf(overlay') =
                 overlay'.currentTrack.Progress
                   + IF overlay'.currentTrack.IsPlaying
                     THEN display'.at - overlay'.currentTrack.UpdatedAt
                     ELSE 0
        /\ (display.info # Nil /\ display'.info # Nil /\ overlay.currentTrack # Nil) =>
             IF overlay.currentTrack.IsPlaying
             THEN display'.currentIdx >= display.currentIdx
             ELSE display'.info = display.info ]_vars

\* C19 witness: a playing track was rendered after its snapshot was taken,
\* at a later line than the one current at the snapshot.
C19_Witness ==
    /\ RenderedSynced
    /\ overlay.currentTrack.IsPlaying
    /\ display.at > overlay.currentTrack.UpdatedAt
    /\ display.currentIdx > CurrentIdx(overlay, overlay.currentTrack.UpdatedAt)

\* ------------------------------------------------------------------- C20
\* the offset the last render added to the raw progress
OffsetAdded ==
    display.progress - RawProgress(overlay.currentTrack, display.at)

\* C20: the offset added to the progress is the configured sync offset for
\* every configured value, and 350 ms when none is configured; a line at
\* 10000 ms is current at raw progress 9800 ms with offset +350 ms.
C20_OffsetIsConfigured ==
    RenderedSynced =>
        /\ OffsetAdded = IF display.configured THEN overlay.SyncOffset
                         ELSE DefaultSyncOffset
        /\ ( /\ RawProgress(overlay.currentTrack, display.at) = 9800
             /\ overlay.SyncOffset = 350
             /\ \E i \in 0..(Len(overlay.currentLyrics.Lines) - 1) :
                   /\ LineAt(overlay.currentLyrics.Lines, i).Timestamp = 10000
                   /\ \A m \in 0..(Len(overlay.currentLyrics.Lines) - 1) :
                        m # i => LineAt(overlay.currentLyrics.Lines, m).Timestamp # 10000
                   /\ InTimestampOrder(overlay.currentLyrics.Lines) )
           => LineAt(overlay.currentLyrics.Lines, display.currentIdx).Timestamp = 10000

\* ------------------------------------------------------------------- C21
\* the last render produced its frame in the synced branch
SyncedFrameRendered == RenderedSynced /\ display.currentIdx >= 0

\* C21: when the line at the current index is a spacer, the frame shows the
\* first later line with text as current and the first line with text after
\* that one as next; the current line of a synced frame is never empty.
C21_SpacerNeverCurrent ==
    SyncedFrameRendered =>
        LET Lines == overlay.currentLyrics.Lines
            j == FirstNonEmptyFrom(Lines, display.currentIdx + 1)
            k == IF j >= 0 THEN FirstNonEmptyFrom(Lines, j + 1) ELSE -1
        IN  /\ display.info.CurrentLine # ""
            /\ LineAt(Lines, display.currentIdx).Text = "" =>
                 /\ j >= 0
                 /\ display.info.CurrentLine = LineAt(Lines, j).Text
                 /\ display.info.NextLine =
                      IF k >= 0 THEN LineAt(Lines, k).Text ELSE ""

\* ------------------------------------------------------------------- C22
\* the last render produced a frame with line timing
TimedFrameRendered == SyncedFrameRendered /\ overlay.revision = Rev_Offset

\* C22: every frame of the synced branch has LineDuration > 0 and
\* 0 <= LineProgress <= LineDuration.
C22_LineProgressWithinDuration ==
    TimedFrameRendered =>
        /\ display.info.LineDuration > 0
        /\ 0 <= display.info.LineProgress
        /\ display.info.LineProgress <= display.info.LineDuration

\* C22 witness: the progress is past the end of the current line, whose
\* duration is the default.
C22_Witness ==
    /\ TimedFrameRendered
    /\ display.progress - display.info.LineStartTime > display.info.LineDuration
    /\ display.info.LineProgress = display.info.LineDuration

\* ------------------------------------------------------------------- C23
\* index of the line the frame shows as current: the line at the current
\* index, or the first later line with text when that one is a spacer
ResolvedIdx ==
    LET Lines == overlay.currentLyrics.Lines
        j == FirstNonEmptyFrom(Lines, display.currentIdx + 1)
    IN  IF LineAt(Lines, display.currentIdx).Text = "" /\ j >= 0
        THEN j ELSE display.currentIdx

\* C23: LineDuration is the timestamp of the first line with text after the
\* resolved current line minus LineStartTime, and 3000 ms when there is no
\* such line or the difference is not positive; a spacer's timestamp never
\* determines it.
C23_DurationFromNextTextLine ==
    TimedFrameRendered =>
        LET Lines == overlay.currentLyrics.Lines
            n == FirstNonEmptyFrom(Lines, ResolvedIdx + 1)
        IN  display.info.LineDuration =
              IF n >= 0 /\ LineAt(Lines, n).Timestamp - display.info.LineStartTime > 0
              THEN LineAt(Lines, n).Timestamp - display.info.LineStartTime
              ELSE 3000

\* ------------------------------------------------------------------- C24
\* the last render had unsynced lyrics with at least one line
RenderedUnsynced ==
    /\ display.info # Nil
    /\ overlay.currentTrack # Nil /\ overlay.currentLyrics # Nil
    /\ ~overlay.currentLyrics.IsSynced
    /\ Len(overlay.currentLyrics.Lines) >= 1

\* C24: for unsynced lyrics with at least one line the frame shows Lines[0]
\* as current and Lines[1] as next (empty without a second line), whatever
\* the progress, the play state and the offset.
C24_UnsyncedShowsFirstLines ==
    RenderedUnsynced =>
        LET Lines == overlay.currentLyrics.Lines
        IN  /\ display.info.CurrentLine = LineAt(Lines, 0).Text
            /\ display.info.NextLine =
                 IF Len(Lines) > 1 THEN LineAt(Lines, 1).Text ELSE ""

\* C24 witness: unsynced lyrics of two lines rendered for a playing track
\* some time after its snapshot, with a configured offset.
C24_Witness ==
    /\ RenderedUnsynced
    /\ Len(overlay.currentLyrics.Lines) = 2
    /\ overlay.currentTrack.IsPlaying /\ overlay.currentTrack.Progress > 0
    /\ display.at > overlay.currentTrack.UpdatedAt
    /\ display.configured

\* ------------------------------------------------------------------- C25
\* C25: GetDisplayInfo always returns a frame: the "No track playing" frame
\* when the track or the lyrics are absent, the "No lyrics available" frame
\* when the lyrics have no lines.
C25_PlaceholderFrames ==
    display.info # Nil =>
        /\ DOMAIN display.info = DOMAIN DisplayInfo("", "", FALSE, 0, 0, 0)
        /\ (overlay.currentTrack = Nil \/ overlay.currentLyrics = Nil) =>
              /\ display.info.CurrentLine = "No track playing"
              /\ display.info.NextLine = ""
              /\ ~display.info.IsPlaying
        /\ ( /\ overlay.currentTrack # Nil /\ overlay.currentLyrics # Nil
             /\ Len(overlay.currentLyrics.Lines) = 0 ) =>
              /\ display.info.CurrentLine = "No lyrics available"
              /\ display.info.IsPlaying = overlay.currentTrack.IsPlaying

\* C25 witness: a playing track whose lyrics have no lines was rendered.
C25_Witness ==
    /\ display.info # Nil
    /\ overlay.currentTrack # Nil /\ overlay.currentLyrics # Nil
    /\ Len(overlay.currentLyrics.Lines) = 0
    /\ overlay.currentTrack.IsPlaying
    /\ display.info.CurrentLine = "No lyrics available"

\* the tags of the input lines that the parser emits lines for
EmittedTags(lrc) ==
    UNION { { FindAll(TrimSpace(raw), 1)[k] :
                k \in 1..Len(FindAll(TrimSpace(raw), 1)) } :
            raw \in { r \in { Split(lrc)[n] : n \in 1..Len(Split(lrc)) } :
                        ParseLine(r) # <<>> } }

\* the timestamp a tag stands for: a 1-digit fraction counts hundreds of
\* milliseconds, a 2-digit fraction tens, a 3-digit fraction milliseconds
ClaimedMs(m) ==
    atoiSafe(m.min) * 60000 + atoiSafe(m.sec) * 1000
        + CASE Len(m.frac) = 0 -> 0
            [] Len(m.frac) = 1 -> atoiSafe(m.frac) * 100
            [] Len(m.frac) = 2 -> atoiSafe(m.frac) * 10
            [] Len(m.frac) = 3 -> atoiSafe(m.frac)

Parsed == call.fn = "ParseSyncedLyrics"

\* C26: the timestamps the parser emits are those of the tags [mm:ss],
\* [mm:ss.t], [mm:ss.tt] and [mm:ss.ttt] of the emitted lines, each
\* mm*60000 + ss*1000 + ms with a 1-digit fraction counting hundreds of ms, a
\* 2-digit fraction tens of ms and a 3-digit fraction exact ms.
C26_TagTimestamp ==
    Parsed =>
        { call.out[k].Timestamp : k \in 1..Len(call.out) }
            = { ClaimedMs(m) : m \in EmittedTags(call.in) }

\* "[00:12.34]a" and "[00:15.5]b" were parsed to 12340 and 15500
C26_Witness ==
    /\ Parsed
    /\ call.in = <<"[","0","0",":","1","2",".","3","4","]","a","\n",
                   "[","0","0",":","1","5",".","5","]","b">>
    /\ call.out = <<Line(<<"a">>, 12340), Line(<<"b">>, 15500)>>

\* the lines the claim expects of one input line: one per timestamp tag, each
\* with the trimmed text after the last tag, unless the line begins with a
\* metadata tag or carries no timestamp tag
ClaimedLinesOf(raw0) ==
    LET raw  == TrimSpace(raw0)
        tags == FindAll(raw, 1)
    IN  IF IsMetadata(raw) \/ tags = <<>> THEN <<>>
        ELSE [k \in 1..Len(tags) |->
                 Line(TrimSpace(SubSeq(raw, tags[Len(tags)].end, Len(raw))),
                      TagTimestamp(tags[k]))]

RECURSIVE ClaimedLines(_)
ClaimedLines(raws) ==
    IF raws = <<>> THEN <<>>
    ELSE ClaimedLinesOf(Head(raws)) \o ClaimedLines(Tail(raws))

Count(seq, x) == Cardinality({ k \in 1..Len(seq) : seq[k] = x })

SameLines(a, b) ==
    /\ Len(a) = Len(b)
    /\ \A k \in 1..Len(a) : Count(a, a[k]) = Count(b, a[k])

\* C27: the parser emits exactly one line per timestamp tag of each input
\* line that carries at least one tag and does not begin with a metadata tag,
\* each with the trimmed text after the last tag; metadata lines and lines
\* without a timestamp emit nothing.
C27_OneLinePerTag ==
    Parsed => SameLines(call.out, ClaimedLines(Split(call.in)))

\* the lines the parser appended for its input, before sorting them
Appended == ParseLines(Split(call.in))

Ascending(lines) ==
    \A k \in 1..(Len(lines) - 1) : lines[k].Timestamp <= lines[k + 1].Timestamp

\* the lines of one timestamp, in their order
AtTimestamp(lines, t) == SelectSeq(lines, LAMBDA l : l.Timestamp = t)

\* C28: the parser's output is in non-decreasing timestamp order for every
\* order of the input lines, and lines with equal timestamps keep their
\* relative input order.
C28_SortedAndStable ==
    Parsed =>
        /\ Ascending(call.out)
        /\ \A k \in 1..Len(call.out) :
             AtTimestamp(call.out, call.out[k].Timestamp)
                 = AtTimestamp(Appended, call.out[k].Timestamp)

\* C29: normalize is idempotent: normalizing the result of normalize gives
\* that result again, normalize(normalize(s)) = normalize(s).
C29_NormalizeIdempotent ==
    [][NormalizeTitleAgain => call'.out = call.out]_vars

\* "Song (feat. Artist)" was normalized to "song", and "song" normalized again
C29_Witness ==
    /\ call.fn = "NormalizeTitleAgain"
    /\ call.in = <<"S","o","n","g"," ","(","f","e","a","t","."," ",
                   "A","r","t","i","s","t",")">>
    /\ call.out = <<"s","o","n","g">>

\* a title lower-cased, with punctuation removed and whitespace collapsed
PlainForm(title) == TrimSpace(CollapseSpace(StripSpecial(ToLower(title))))

\* C30: normalize maps a title carrying qualifiers ((feat. X), (ft. X),
\* (featuring X), a [..] group, (..remix..), (..version..), (..edit..), a
\* trailing "- Remaster..", "- Remix..", "- Radio Edit", "- .. Version") to
\* the same string as the title without them: lower-cased, punctuation
\* removed, whitespace collapsed.
C30_QualifiersDropped ==
    call.fn = "NormalizeTitle" =>
        \A base \in TitleBases, qs \in QualifierLists :
            (qs # <<>> /\ call.in = Qualified(base, qs))
                => /\ call.out = PlainForm(base)
                   /\ call.out = normalizeString(base)

\* C32: every SetByTrackID and SetByKey call terminates, for every key
\* including the empty string: the eviction loop removes an entry in each
\* iteration and ends with Size() <= capacity.
C32_SetTerminates ==
    /\ ~hung
    /\ last.op \in Sets => Size(cache) <= cache.maxSize

\* C33: every result returned by GetLyrics(trackId, artist, title) has
\* TrackID equal to the requested trackId, whether it comes from the track-ID
\* slot, from the normalized-key slot or from a provider.
C33_ResultCarriesRequestedTrackID ==
    (last.op = "GetLyrics" /\ last.ret # Nil) => last.ret.TrackID = last.key

\* synced lyrics were rendered before their first line had started
RenderedBeforeFirstLine ==
    /\ RenderedSynced
    /\ overlay.currentLyrics.Lines[1].Timestamp > display.progress

\* C40: for synced lyrics whose first timestamp is greater than the effective
\* progress GetDisplayInfo returns the frame of the unsynced branch: Lines[0]
\* as current, Lines[1] as next, zero line-timing fields; never the
\* "No lyrics available" frame.
C40_BeforeFirstLineShowsFirstLines ==
    RenderedBeforeFirstLine =>
        LET Lines == overlay.currentLyrics.Lines
        IN  display.info =
                [ CurrentLine   |-> Lines[1].Text,
                  NextLine      |-> IF Len(Lines) > 1 THEN Lines[2].Text ELSE "",
                  IsPlaying     |-> overlay.currentTrack.IsPlaying,
                  LineDuration  |-> 0,
                  LineProgress  |-> 0,
                  LineStartTime |-> 0 ]

\* C40 witness: lyrics starting at 10000 ms rendered at effective progress
\* below that, in the revision with the configurable offset
C40_Witness ==
    /\ RenderedBeforeFirstLine
    /\ overlay.revision = Rev_Offset
    /\ overlay.currentLyrics.Lines[1].Timestamp = 10000
    /\ display.progress > 0
    /\ display.info.NextLine # ""

\* C31: under every interleaving of poll ticks and asynchronous lyric
\* fetches, once all started fetches have finished the lyrics held by the
\* overlay are the ones resolved for the track the overlay currently holds: a
\* fetch started for an earlier track never overwrites the lyrics of a later
\* track.
C31_LyricsBelongToCurrentTrack ==
    ( /\ poller.fetches = <<>>
      /\ overlay.currentTrack # Nil
      /\ overlay.currentLyrics # Nil )
        => overlay.currentLyrics.TrackID = overlay.currentTrack.ID

\* C34: a poll starts a lyrics resolution exactly when the polled track ID
\* differs from lastTrackID, the track ID of the previous poll that delivered
\* a track: once per change, for the polled track, and none while the same
\* track ID keeps being reported or nothing plays.
C34_FetchOnTrackChange ==
    [][\A resp \in TrackResponses :
         Poll(resp) =>
           IF resp.kind = "item"
           THEN /\ poller'.lastTrackID = resp.item.ID
                /\ overlay'.currentTrack.ID = resp.item.ID
                /\ IF resp.item.ID # poller.lastTrackID
                   THEN poller'.fetches
                            = Append(poller.fetches, overlay'.currentTrack)
                   ELSE poller'.fetches = poller.fetches
           ELSE /\ poller'.lastTrackID = poller.lastTrackID
                /\ poller'.fetches = poller.fetches]_vars

\* C34 witness: t2 was reported and then t1, each change started one fetch,
\* and both are in flight
C34_Witness ==
    /\ poller.lastTrackID = <<"t", "1">>
    /\ Len(poller.fetches) = 2
    /\ poller.fetches[1].ID = <<"t", "2">>
    /\ poller.fetches[2].ID = <<"t", "1">>
    /\ overlay.currentTrack # Nil

\* C35: in every reachable poller state baseInterval (4 s) <= currentInterval
\* <= maxInterval (60 s): an error backoff multiplies by 1.5 and caps at the
\* maximum, a rate-limit response never sets the interval above the maximum
\* or to a non-positive value, a successful poll sets 4 s when playing and
\* 12 s when paused.
C35_IntervalWithinBounds ==
    /\ baseInterval <= poller.currentInterval
    /\ poller.currentInterval <= maxInterval
    /\ ~poller.panicked

\* C36: over every sequence of Start and Stop calls the stop channel is closed
\* at most once (a Stop that closes it finds it open), and whenever
\* IsPolling() is true a poll loop is running that still reacts to ticks: a
\* loop exists and the stop channel it selects on is open, so a Start after
\* a Stop resumes polling.
C36_StartStopKeepsLoop ==
    /\ [](poller.isPolling => poller.loops > 0 /\ ~poller.stopClosed)
    /\ [][(Stop /\ poller.isPolling) => ~poller.stopClosed]_vars

Texts(lines) == [i \in 1..Len(lines) |-> lines[i].Text]

Trimmed(text) == [i \in 1..Len(Split(text)) |-> TrimSpace(Split(text)[i])]

NonEmpty(texts) == SelectSeq(texts, LAMBDA t : t # <<>>)

Remaining(text) == SelectSeq(Trimmed(text), LAMBDA t : t # <<>> /\ ~isSkippable(t))

\* C39: for every input text the noise filter's output has no two consecutive
\* empty lines, neither starts nor ends with an empty line, contains no line
\* matching a drop rule, and its non-empty lines are the trimmed input lines
\* that match no drop rule, in input order.
C39_FilterOutputShape ==
    call.fn = "textToLyricsLines" =>
        /\ \A i \in 1..(Len(call.out) - 1) :
             ~(call.out[i].Text = <<>> /\ call.out[i + 1].Text = <<>>)
        /\ call.out # <<>> =>
             call.out[1].Text # <<>> /\ call.out[Len(call.out)].Text # <<>>
        /\ \A i \in 1..Len(call.out) : ~isSkippable(call.out[i].Text)
        /\ NonEmpty(Texts(call.out)) = Remaining(call.in)

\* four raw lines, two empty ones between two lyric lines: one spacer is kept
C39_Witness ==
    /\ call.fn = "textToLyricsLines"
    /\ Len(Trimmed(call.in)) = 4
    /\ Trimmed(call.in)[2] = <<>> /\ Trimmed(call.in)[3] = <<>>
    /\ Len(call.out) = 3
    /\ call.out[2].Text = <<>>

ClaimedScore(r) ==
    (IF normalizeString(r.ArtistName) = normalizeString(Str_A) THEN 3 ELSE 0)
      + (IF normalizeString(r.TrackName) = normalizeString(Str_S) THEN 3 ELSE 0)
      + (IF r.SyncedLyrics # <<>> THEN 2 ELSE 0)
      + (IF r.PlainLyrics # <<>> THEN 1 ELSE 0)

Picked == call.fn = "pickBestLRCLibMatch" /\ call.in.search.body # <<>>

\* C38: pickBestLRCLibMatch returns the result with the highest score (+3
\* normalized artist equal, +3 normalized title equal, +2 synced lyrics
\* present, +1 plain lyrics present), among results with the top score the
\* first of the list, and it returns a result for every non-empty list.
C38_HighestScoreFirstWins ==
    Picked =>
        \E i \in 1..Len(call.in.search.body) :
            /\ call.out = call.in.search.body[i]
            /\ \A j \in 1..Len(call.in.search.body) :
                 ClaimedScore(call.in.search.body[j]) <= ClaimedScore(call.in.search.body[i])
            /\ \A j \in 1..(i - 1) :
                 ClaimedScore(call.in.search.body[j]) < ClaimedScore(call.in.search.body[i])

\* two results with the top score and different identifiers: the first is
\* returned
C38_Witness ==
    /\ Picked
    /\ Len(call.in.search.body) = 2
    /\ ClaimedScore(call.in.search.body[1]) = ClaimedScore(call.in.search.body[2])
    /\ call.in.search.body[1] # call.in.search.body[2]
    /\ call.out = call.in.search.body[1]

Candidate ==
    BestOf(SearchResults(call.in, Str_A, Str_S).body, Str_A, Str_S)

PickedFromSearch ==
    /\ call.fn = "SearchLyrics"
    /\ Nil \in trackToLyricsData(tryGet(call.in, Str_A, Str_S))
    /\ ~SearchResults(call.in, Str_A, Str_S).err

\* C37: when LRCLibProvider.SearchLyrics picks a candidate from search
\* results, the result it returns is built from the record re-fetched by
\* that candidate's identifier; lyrics carried only by the search response
\* are not accepted as the result.
C37_ResultFromRefetchedRecord ==
    (PickedFromSearch /\ ~call.out.err) =>
        /\ ~call.in.byID[Candidate.ID].err
        /\ call.out.lyrics \in trackToLyricsData(call.in.byID[Candidate.ID].body)
====
